---- MODULE Spec2Model ----
(***************************************************************************)
(* Agentic-retrieval quickstart (Azure AI Search, TypeScript).             *)
(*                                                                         *)
(* The repository holds several variants of one pipeline:                  *)
(*   - the REST variant (functions main, prepareSearchService,             *)
(*     fetchEarthAtNightDocuments, createKnowledgeSource, ...),            *)
(*   - the buffered-sender top-level script (SearchIndexingBufferedSender, *)
(*     polling loop on getDocumentsCount).                                 *)
(* Every network call is a suspension point; the remote services are the   *)
(* environment and answer each request nondeterministically.               *)
(***************************************************************************)
EXTENDS Integers, Sequences, FiniteSets, TLC

VARIABLES
    \* ---- fetchEarthAtNightDocuments called by a test harness ----
    fpc,            \* position of the call: "idle", "awaiting", "returned", "raised"
    transport,      \* what the HTTP GET of documents.json yields
    fetchCalls,     \* number of fetch() attempts made by the call
    fresult,        \* the list the call returned
    \* ---- the search service (environment) ----
    searchIndex,    \* [exists, docs]: the index earth_at_night and its document count
    ksStore,        \* knowledge sources held by the service: records [name, def]
    kbStore,        \* knowledge bases held by the service: records [name, def]
    \* ---- the buffered-sender top-level script ----
    variant,        \* "polling" (quickstart script) or "fixedWait" (src/index.ts)
    spc,            \* the statement the script is suspended at
    documentsLength,\* documents.length, -1 before documents is assigned
    queue,          \* documents held by bufferedClient, not yet dispatched
    count,          \* the script's variable count, -1 before its first assignment
    reads,          \* getDocumentsCount calls answered so far, counted up to MaxReads
    lastDelay,      \* milliseconds of the delay awaited last, 0 before the first
    uploadCalls,    \* calls of bufferedClient.uploadDocuments
    flushCalls,     \* calls of bufferedClient.flush
    disposeCalls,   \* calls of bufferedClient.dispose
    batchFailedEvents, \* times the batchFailed handler ran
    slog,           \* the operations after the indexing wait, in the order issued
    exitCode,       \* process exit code, -1 while the process runs
    failure,        \* the awaited call whose rejection ended the script, or "none"
    \* ---- the REST variant (main) and callers of its functions ----
    mode,           \* "main": the program runs; "harness": a caller invokes functions
    rpc,            \* the await the REST code is suspended at
    uploadDocs,     \* config.uploadDocs
    cleanupResources, \* config.cleanupResources
    restVariant,    \* "retrieval" or "withChat" (generateFinalAnswer after each retrieval)
    instructions,   \* answerInstructions of knowledgeBaseDefinition
    getResponse,    \* status of the last existence probe (getResponse), 0 if none
    messages,       \* the conversation: a sequence of [role, content]
    requests,       \* the messages of each retrieval request sent, in order
    rlog,           \* calls, HTTP exchanges, returns and throws, in order
    thrown,         \* the error that propagates out of the function, if any
    rdocs,          \* documents returned by fetchEarthAtNightDocuments
    calls,          \* function calls made by the harness
    \* ---- the process environment the configuration is read from ----
    env,            \* process.env: UPLOAD_DOCS and CLEANUP_RESOURCES, each [set, text]
    \* ---- printActivities / printReferences called on one response ----
    ppc,            \* "printActivities", "printReferences", "done" or "raised"
    response,       \* the AgenticRetrievalResponse: [activity, references]
    console,        \* the type labels written by console.log, in order
    \* ---- two runs of createKnowledgeSource against one service ----
    cpc,            \* per run: "probe", "create", "returned" or "raised"
    clog            \* per run: the statuses of its requests, in order

fetchVars == <<fpc, transport, fetchCalls, fresult>>

svcVars == <<searchIndex, ksStore, kbStore>>

senderVars == <<queue, uploadCalls, flushCalls, disposeCalls, batchFailedEvents>>

scriptVars == <<variant, spc, documentsLength, count, reads, lastDelay, slog, exitCode,
               failure, senderVars>>

scriptOnlyVars ==
    <<variant, spc, documentsLength, count, reads, lastDelay, slog, failure, senderVars>>

restVars ==
    <<mode, rpc, uploadDocs, cleanupResources, restVariant, instructions, getResponse,
      messages, requests, rlog, thrown, rdocs, calls>>

printVars == <<ppc, response, console>>

raceVars == <<cpc, clog>>

unitVars == <<env, printVars, raceVars>>

vars == <<fetchVars, svcVars, scriptVars, restVars, unitVars>>

----------------------------------------------------------------------------
(* Bounds of the model *)

\* longest JSON array served for documents.json
MaxDocs == 3

\* most documents the index holds before the run (left by an earlier run)
MaxPreexisting == 1

\* the count of getDocumentsCount calls is kept up to this number
MaxReads == 3

----------------------------------------------------------------------------
(* Document Source Adapter: fetchEarthAtNightDocuments *)

\* new Array(3072).fill(x): a vector is kept as its length and its fill value,
\* the fill in tenths (1 stands for 0.1, 2 for 0.2)
EmbeddingDim == 3072

FilledVector(tenths) == [dim |-> EmbeddingDim, fill |-> tenths]

\* String(n) for the positions the model reaches
String(n) == <<"1", "2", "3", "4", "5">>[n]

\* A fetched record: `has` is the set of fields present in the JSON object,
\* the other fields give the values of the present ones.
FieldNames == {"id", "page_chunk", "content", "page_embedding_text_3_large", "page_number"}

NoVector == [dim |-> 0, fill |-> 0]

Rec(has, id, chunk, content, emb, pn) ==
    [t |-> "rec", has |-> has, id |-> id, page_chunk |-> chunk, content |-> content,
     page_embedding_text_3_large |-> emb, page_number |-> pn]

\* the values a present field takes: a falsy one ("" or 0) and truthy ones
RecordIds == {"", "1", "2"}

\* field profiles of the records served: every field is missing, present and
\* falsy, or present and truthy in at least one profile
RecordsWithId(has, id) ==
    { Rec(has, id, "", "", NoVector, 0),
      Rec(has \cup {"page_chunk", "content", "page_number"}, id, "", "", NoVector, 0),
      Rec(has \cup {"content"}, id, "", "ct", NoVector, 0),
      Rec(has \cup (FieldNames \ {"id"}), id, "pc", "ct", [dim |-> 2, fill |-> 7], 9) }

Records ==
    RecordsWithId({}, "") \cup UNION { RecordsWithId({"id"}, i) : i \in RecordIds }

\* JSON array elements that are not objects: null, and a primitive (number)
NullItem == [t |-> "null"]
NumItem == [t |-> "num"]

Items == Records \cup {NullItem, NumItem}

RECURSIVE SeqsUpTo(_, _)
SeqsUpTo(S, n) ==
    IF n = 0 THEN { <<>> }
    ELSE LET shorter == SeqsUpTo(S, n - 1)
         IN shorter \cup { Append(s, x) : s \in { q \in shorter : Len(q) = n - 1 }, x \in S }

\* response bodies: text that is not JSON, JSON that is not an array, JSON arrays
Bodies ==
    { [t |-> "notJson", items |-> <<>>], [t |-> "null", items |-> <<>>],
      [t |-> "object", items |-> <<>>], [t |-> "string", items |-> <<>>] }
    \cup { [t |-> "array", items |-> s] : s \in SeqsUpTo(Items, MaxDocs) }

\* outcomes of `await fetch(documentsUrl)`
Transports ==
    { [kind |-> "networkError", status |-> 0, body |-> [t |-> "notJson", items |-> <<>>]] }
    \cup { [kind |-> "response", status |-> s, body |-> [t |-> "notJson", items |-> <<>>]]
             : s \in {404, 500} }
    \cup { [kind |-> "response", status |-> 200, body |-> b] : b \in Bodies }

\* response.ok
Ok(status) == status >= 200 /\ status <= 299

\* property read `doc.f`: undefined when the object has no such field;
\* reading a property of a number gives undefined as well
Has(doc, f) == doc.t = "rec" /\ f \in doc.has

\* JavaScript truthiness of `doc.f` for the field types of the record
Truthy(doc, f) ==
    /\ Has(doc, f)
    /\ CASE f = "page_number" -> doc[f] /= 0
         [] f = "page_embedding_text_3_large" -> TRUE
         [] OTHER -> doc[f] /= ""

\* the arrow function given to documents.map
NormalizeDocument(doc, index) ==
    [ id |-> IF Truthy(doc, "id") THEN doc.id ELSE String(index + 1),
      page_chunk |-> IF Truthy(doc, "page_chunk") THEN doc.page_chunk
                     ELSE IF Truthy(doc, "content") THEN doc.content ELSE "",
      page_embedding_text_3_large |->
          IF Truthy(doc, "page_embedding_text_3_large") THEN doc.page_embedding_text_3_large
          ELSE FilledVector(1),
      page_number |-> IF Truthy(doc, "page_number") THEN doc.page_number ELSE index + 1 ]

\* the list returned from the catch block
FallbackDocuments ==
    << [id |-> "1", page_chunk |-> "settlement", page_embedding_text_3_large |-> FilledVector(1),
        page_number |-> 1],
       [id |-> "2", page_chunk |-> "aurora", page_embedding_text_3_large |-> FilledVector(2),
        page_number |-> 2] >>

\* the try block: threw is TRUE when fetch rejects, the status check throws,
\* response.json() rejects, documents.length / documents.map fails on a value
\* that is null or has no map method, or the callback reads a property of null
FetchTryBlock(t) ==
    IF t.kind = "networkError" THEN [threw |-> TRUE, value |-> <<>>]
    ELSE IF ~Ok(t.status) THEN [threw |-> TRUE, value |-> <<>>]
    ELSE IF t.body.t /= "array" THEN [threw |-> TRUE, value |-> <<>>]
    ELSE IF \E i \in 1..Len(t.body.items) : t.body.items[i].t = "null"
         THEN [threw |-> TRUE, value |-> <<>>]
    ELSE [threw |-> FALSE,
          value |-> [i \in 1..Len(t.body.items) |-> NormalizeDocument(t.body.items[i], i - 1)]]

\* try { ... } catch (error) { return fallback }
fetchEarthAtNightDocuments(t) ==
    LET r == FetchTryBlock(t)
    IN IF r.threw THEN [threw |-> FALSE, value |-> FallbackDocuments] ELSE r

----------------------------------------------------------------------------
(* A caller of fetchEarthAtNightDocuments *)

\* the parts of the state a specification does not use stay as they start
FetchUnused ==
    /\ fpc = "unused"
    /\ transport = [kind |-> "networkError", status |-> 0,
                    body |-> [t |-> "notJson", items |-> <<>>]]
    /\ fetchCalls = 0
    /\ fresult = <<>>

ServiceEmpty ==
    /\ searchIndex = [exists |-> FALSE, docs |-> 0]
    /\ ksStore = {}
    /\ kbStore = {}

ScriptUnused ==
    /\ variant = "none"
    /\ spc = "unused"
    /\ documentsLength = -1
    /\ queue = 0
    /\ count = -1
    /\ reads = 0
    /\ lastDelay = 0
    /\ uploadCalls = 0
    /\ flushCalls = 0
    /\ disposeCalls = 0
    /\ batchFailedEvents = 0
    /\ slog = <<>>
    /\ exitCode = -1
    /\ failure = "none"

NoError == [kind |-> "none", status |-> 0, body |-> ""]

RestUnused ==
    /\ mode = "none"
    /\ rpc = "unused"
    /\ uploadDocs = FALSE
    /\ cleanupResources = FALSE
    /\ restVariant = "none"
    /\ instructions = ""
    /\ getResponse = 0
    /\ messages = <<>>
    /\ requests = <<>>
    /\ rlog = <<>>
    /\ thrown = NoError
    /\ rdocs = <<>>
    /\ calls = 0

\* a variable of process.env: unset (undefined) or set to a string
Undefined == [set |-> FALSE, text |-> ""]

Str(text) == [set |-> TRUE, text |-> text]

\* a toggle that is on only for the string 'true'
Toggle_OnlyTrue(v) == v.set /\ v.text = "true"

\* process.env.X !== 'false'
Toggle(v) == ~(v.set /\ v.text = "false")

EnvUnset == env = [UPLOAD_DOCS |-> Undefined, CLEANUP_RESOURCES |-> Undefined]

MissingField == [t |-> "undefined", items |-> <<>>]

PrintUnused ==
    /\ ppc = "unused"
    /\ response = [activity |-> MissingField, references |-> MissingField]
    /\ console = <<>>

RaceUnused ==
    /\ cpc = <<>>
    /\ clog = <<>>

UnitsUnused == EnvUnset /\ PrintUnused /\ RaceUnused

InitFetch ==
    /\ UnitsUnused
    /\ fpc = "idle"
    /\ transport \in Transports
    /\ fetchCalls = 0
    /\ fresult = <<>>
    /\ ServiceEmpty
    /\ ScriptUnused
    /\ RestUnused

\* const response = await fetch(documentsUrl)
FetchCall ==
    /\ fpc = "idle"
    /\ fpc' = "awaiting"
    /\ fetchCalls' = fetchCalls + 1
    /\ UNCHANGED <<transport, fresult, svcVars, scriptVars, restVars, unitVars>>

\* the GET settles and the function runs to its return (or throw)
FetchSettle ==
    /\ fpc = "awaiting"
    /\ LET r == fetchEarthAtNightDocuments(transport)
       IN /\ fpc' = IF r.threw THEN "raised" ELSE "returned"
          /\ fresult' = r.value
    /\ UNCHANGED <<transport, fetchCalls, svcVars, scriptVars, restVars, unitVars>>

NextFetch == FetchCall \/ FetchSettle

SpecFetch == InitFetch /\ [][NextFetch]_vars

\* C1: fetchEarthAtNightDocuments never raises; when the GET fails, answers a
\* non-success status, or serves a body that is not JSON or not an array of
\* records, it returns the fallback list of 2 documents (ids "1" and "2");
\* and a call makes exactly one fetch attempt.
IsArrayOfRecords(body) ==
    body.t = "array" /\ \A i \in 1..Len(body.items) : body.items[i].t = "rec"

FailingOrMalformed(t) ==
    t.kind = "networkError" \/ ~Ok(t.status) \/ ~IsArrayOfRecords(t.body)

C1_FallbackOnEveryFailure ==
    /\ fpc /= "raised"
    /\ fpc = "returned" =>
          /\ fetchCalls = 1
          /\ FailingOrMalformed(transport) =>
                /\ fresult = FallbackDocuments
                /\ Len(fresult) = 2 /\ fresult[1].id = "1" /\ fresult[2].id = "2"

\* the GET was answered 200 with a JSON array of records and the call returned
ServedRecords ==
    /\ fpc = "returned"
    /\ transport.kind = "response" /\ Ok(transport.status)
    /\ IsArrayOfRecords(transport.body)

\* C16: the output has the length and order of the fetched array, and for the
\* record at position i (0-based) each output field is the record's field when
\* the record has it (whatever its value), its default only when the field is
\* missing: String(i+1), the content or "", 3072 copies of 0.1, i+1.
C16_DefaultsOnlyWhenMissing ==
    ServedRecords =>
        LET items == transport.body.items
        IN /\ Len(fresult) = Len(items)
           /\ \A n \in 1..Len(items) :
                 LET doc == items[n]
                     out == fresult[n]
                 IN /\ out.id = IF "id" \in doc.has THEN doc.id ELSE String(n)
                    /\ out.page_chunk =
                          IF "page_chunk" \in doc.has THEN doc.page_chunk
                          ELSE IF "content" \in doc.has THEN doc.content ELSE ""
                    /\ out.page_embedding_text_3_large =
                          IF "page_embedding_text_3_large" \in doc.has
                          THEN doc.page_embedding_text_3_large
                          ELSE [dim |-> 3072, fill |-> 1]
                    /\ out.page_number =
                          IF "page_number" \in doc.has THEN doc.page_number ELSE n

PairwiseDistinctIds(docs) ==
    \A m, n \in 1..Len(docs) : m /= n => docs[m].id /= docs[n].id

\* the identifiers that are present in the fetched records are pairwise distinct
PresentIdsDistinct(items) ==
    \A m, n \in 1..Len(items) :
        (m /= n /\ "id" \in items[m].has /\ "id" \in items[n].has)
            => items[m].id /= items[n].id

\* C17: the returned list has pairwise-distinct identifiers whenever it is
\* the fallback list or the normalization of a record list whose present
\* identifiers are pairwise distinct.
C17_ReturnedIdsDistinct ==
    /\ (fpc = "returned" /\ fresult = FallbackDocuments) => PairwiseDistinctIds(fresult)
    /\ (ServedRecords /\ PresentIdsDistinct(transport.body.items))
          => PairwiseDistinctIds(fresult)

----------------------------------------------------------------------------
(* The buffered-sender top-level script.                                   *)
(* variant "polling": the quickstart script (createOrUpdateIndex, fetch,   *)
(* uploadDocuments, flush, dispose, delay, getDocumentsCount loop, ...).   *)
(* variant "fixedWait": src/index.ts (uploadDocuments, one fixed wait).    *)
(* A rejected top-level await ends the process with exit code 1.           *)

KnowledgeSourceName == "earth-knowledge-source"
KnowledgeBaseName == "earth-knowledge-base"

\* the knowledge source definition of the script
ScriptKnowledgeSource == [name |-> KnowledgeSourceName, def |-> "searchIndex:id,page_number"]

\* answerInstructions of the knowledge base definition
AnswerInstructions == "two sentence answer"

ScriptKnowledgeBase == [name |-> KnowledgeBaseName, def |-> AnswerInstructions]

\* the script's steps after the indexing wait, in program order
AfterWait ==
    <<"createKnowledgeSource", "createKnowledgeBase", "retrieveKnowledge1",
      "retrieveKnowledge2", "deleteKnowledgeBase", "deleteKnowledgeSource", "deleteIndex">>

AfterWaitSteps == { AfterWait[i] : i \in 1..Len(AfterWait) }

\* the statement after step op
StepAfter(op) ==
    LET i == CHOOSE j \in 1..Len(AfterWait) : AfterWait[j] = op
    IN IF i = Len(AfterWait) THEN "done" ELSE AfterWait[i + 1]

\* an awaited promise rejects at top level: the module evaluation fails
ScriptAbort(rejected) ==
    /\ spc' = "aborted"
    /\ exitCode' = 1
    /\ failure' = rejected

ScriptGoesOn == UNCHANGED <<exitCode, failure>>

InitScript ==
    /\ UnitsUnused
    /\ FetchUnused
    /\ searchIndex \in [exists : BOOLEAN, docs : 0..MaxPreexisting]
    /\ searchIndex.exists \/ searchIndex.docs = 0
    /\ ksStore = {}
    /\ kbStore = {}
    /\ variant \in {"polling", "fixedWait"}
    /\ spc = "createOrUpdateIndex"
    /\ documentsLength = -1
    /\ queue = 0
    /\ count = -1
    /\ reads = 0
    /\ lastDelay = 0
    /\ uploadCalls = 0
    /\ flushCalls = 0
    /\ disposeCalls = 0
    /\ batchFailedEvents = 0
    /\ slog = <<>>
    /\ exitCode = -1
    /\ failure = "none"
    /\ RestUnused

\* await searchIndexClient.createOrUpdateIndex(index)
SCreateOrUpdateIndex ==
    /\ spc = "createOrUpdateIndex"
    /\ \/ /\ searchIndex' = [searchIndex EXCEPT !.exists = TRUE]
          /\ spc' = "fetch"
          /\ ScriptGoesOn
       \/ /\ ScriptAbort("createOrUpdateIndex")
          /\ UNCHANGED searchIndex
    /\ UNCHANGED <<unitVars, fetchVars, restVars, ksStore, kbStore, variant, documentsLength, count,
                   reads, lastDelay, slog,
                   senderVars>>

\* const response = await fetch(...); if (!response.ok) throw ...;
\* const documents = await response.json(): n is the length of the array served
SFetchDocuments ==
    /\ spc = "fetch"
    /\ \/ \E n \in 0..MaxDocs :
             /\ documentsLength' = n
             /\ spc' = "uploadDocuments"
             /\ ScriptGoesOn
       \/ /\ ScriptAbort("fetch")
          /\ UNCHANGED documentsLength
    /\ UNCHANGED <<unitVars, fetchVars, restVars, svcVars, variant, count, reads, lastDelay, slog,
                   senderVars>>

\* a batchFailed handler that hands the documents of the failed batch to the
\* sender again
Dispatch_Resubmit(inQueue, sent, good) ==
    /\ queue' = inQueue - good
    /\ searchIndex' = [searchIndex EXCEPT !.docs = @ + good]
    /\ batchFailedEvents' = batchFailedEvents + (IF good < sent THEN 1 ELSE 0)

\* the sender dispatches `sent` queued documents, the service indexes `good`
\* of them; a batch that is not indexed reaches the batchFailed handler
Dispatch(inQueue, sent, good) ==
    /\ queue' = inQueue - sent
    /\ searchIndex' = [searchIndex EXCEPT !.docs = @ + good]
    /\ batchFailedEvents' = batchFailedEvents + (IF good < sent THEN 1 ELSE 0)

\* await bufferedClient.uploadDocuments(documents): autoFlush may dispatch some
\* of the documents during the call; the call may reject when a batch fails
SUploadDocuments ==
    /\ spc = "uploadDocuments"
    /\ uploadCalls' = uploadCalls + 1
    /\ \E sent \in 0..documentsLength : \E good \in 0..sent :
          /\ Dispatch(documentsLength, sent, good)
          /\ \/ /\ spc' = IF variant = "polling" THEN "flush" ELSE "delay"
                /\ ScriptGoesOn
             \/ /\ good < sent
                /\ ScriptAbort("uploadDocuments")
    /\ UNCHANGED <<unitVars, fetchVars, restVars, ksStore, kbStore, variant, documentsLength, count,
                   reads, lastDelay, slog,
                   flushCalls, disposeCalls>>

\* await bufferedClient.flush(): everything queued is dispatched
SFlush ==
    /\ spc = "flush"
    /\ flushCalls' = flushCalls + 1
    /\ \E good \in 0..queue :
          /\ Dispatch(queue, queue, good)
          /\ \/ /\ spc' = "dispose"
                /\ ScriptGoesOn
             \/ /\ good < queue
                /\ ScriptAbort("flush")
    /\ UNCHANGED <<unitVars, fetchVars, restVars, ksStore, kbStore, variant, documentsLength, count,
                   reads, lastDelay, slog,
                   uploadCalls, disposeCalls>>

\* await bufferedClient.dispose()
SDispose ==
    /\ spc = "dispose"
    /\ disposeCalls' = disposeCalls + 1
    /\ spc' = "delay"
    /\ UNCHANGED <<unitVars, fetchVars, restVars, svcVars, variant, documentsLength, count, reads,
                   lastDelay, slog, exitCode, failure,
                   queue, uploadCalls, flushCalls, batchFailedEvents>>

\* autoFlush: true. While the process runs and the sender is not disposed, its
\* timer dispatches what is still queued.
SAutoFlush ==
    /\ spc \notin {"unused", "aborted", "done"}
    /\ disposeCalls = 0
    /\ queue > 0
    /\ \E good \in 0..queue : Dispatch(queue, queue, good)
    /\ UNCHANGED <<unitVars, fetchVars, restVars, ksStore, kbStore, variant, spc, documentsLength, count,
                   reads, lastDelay,
                   slog, exitCode, failure, uploadCalls, flushCalls, disposeCalls>>

\* export const WAIT_TIME = 4000
WAIT_TIME == 4000

\* setTimeout(resolve, 4000) of the script without a polling loop
IndexingWaitMs == 4000

\* await delay(WAIT_TIME) before the first read (polling);
\* await new Promise(resolve => setTimeout(resolve, 4000)) (fixedWait)
SInitialDelay ==
    /\ spc = "delay"
    /\ lastDelay' = IF variant = "polling" THEN WAIT_TIME ELSE IndexingWaitMs
    /\ spc' = IF variant = "polling" THEN "getDocumentsCount" ELSE AfterWait[1]
    /\ UNCHANGED <<unitVars, fetchVars, restVars, svcVars, variant, documentsLength, count, reads,
                   slog, exitCode, failure, senderVars>>

\* count = await searchClient.getDocumentsCount(), then the loop test
\* `count !== documents.length`; the count reported may lag behind the index
CountUpTo(n, max) == IF n < max THEN n + 1 ELSE max

\* a loop as a plausible slip would write it: leave once the index holds at
\* least the expected number of documents
SGetDocumentsCount_AtLeast ==
    /\ spc = "getDocumentsCount"
    /\ \/ \E c \in 0..searchIndex.docs :
             /\ count' = c
             /\ reads' = CountUpTo(reads, MaxReads)
             /\ spc' = IF c < documentsLength THEN "loopDelay" ELSE AfterWait[1]
             /\ ScriptGoesOn
       \/ /\ ScriptAbort("getDocumentsCount")
          /\ UNCHANGED <<count, reads>>
    /\ UNCHANGED <<unitVars, fetchVars, restVars, svcVars, variant, documentsLength, lastDelay, slog,
                   senderVars>>

\* a loop with a retry ceiling: the second mismatching read raises a timeout
SGetDocumentsCount_Bounded ==
    /\ spc = "getDocumentsCount"
    /\ \/ \E c \in 0..searchIndex.docs :
             /\ count' = c
             /\ reads' = CountUpTo(reads, MaxReads)
             /\ IF c = documentsLength
                THEN spc' = AfterWait[1] /\ ScriptGoesOn
                ELSE IF reads >= 1 THEN ScriptAbort("timeout")
                     ELSE spc' = "loopDelay" /\ ScriptGoesOn
       \/ /\ ScriptAbort("getDocumentsCount")
          /\ UNCHANGED <<count, reads>>
    /\ UNCHANGED <<unitVars, fetchVars, restVars, svcVars, variant, documentsLength, lastDelay, slog,
                   senderVars>>

\* a loop that gives up when the batchFailed handler has run
SGetDocumentsCount_FailOnBatchFailed ==
    /\ spc = "getDocumentsCount"
    /\ \/ \E c \in 0..searchIndex.docs :
             /\ count' = c
             /\ reads' = CountUpTo(reads, MaxReads)
             /\ IF c = documentsLength
                THEN spc' = AfterWait[1] /\ ScriptGoesOn
                ELSE IF batchFailedEvents > 0 THEN ScriptAbort("batchFailed")
                     ELSE spc' = "loopDelay" /\ ScriptGoesOn
       \/ /\ ScriptAbort("getDocumentsCount")
          /\ UNCHANGED <<count, reads>>
    /\ UNCHANGED <<unitVars, fetchVars, restVars, svcVars, variant, documentsLength, lastDelay, slog,
                   senderVars>>

SGetDocumentsCount ==
    /\ spc = "getDocumentsCount"
    /\ \/ \E c \in 0..searchIndex.docs :
             /\ count' = c
             /\ reads' = CountUpTo(reads, MaxReads)
             /\ spc' = IF c /= documentsLength THEN "loopDelay" ELSE AfterWait[1]
             /\ ScriptGoesOn
       \/ /\ ScriptAbort("getDocumentsCount")
          /\ UNCHANGED <<count, reads>>
    /\ UNCHANGED <<unitVars, fetchVars, restVars, svcVars, variant, documentsLength, lastDelay, slog,
                   senderVars>>

\* a loop that doubles its interval after every read that did not match
SLoopDelay_Backoff ==
    /\ spc = "loopDelay"
    /\ lastDelay' = 2 * lastDelay
    /\ spc' = "getDocumentsCount"
    /\ UNCHANGED <<unitVars, fetchVars, restVars, svcVars, variant, documentsLength, count, reads,
                   slog, exitCode, failure, senderVars>>

\* await delay(WAIT_TIME) in the loop body
SLoopDelay ==
    /\ spc = "loopDelay"
    /\ lastDelay' = WAIT_TIME
    /\ spc' = "getDocumentsCount"
    /\ UNCHANGED <<unitVars, fetchVars, restVars, svcVars, variant, documentsLength, count, reads,
                   slog, exitCode, failure, senderVars>>

\* what the service does with a request of the script that it accepts
SdkEffect(op) ==
    /\ ksStore' = CASE op = "createKnowledgeSource" ->
                         { k \in ksStore : k.name /= KnowledgeSourceName }
                             \cup {ScriptKnowledgeSource}
                    [] op = "deleteKnowledgeSource" ->
                         { k \in ksStore : k.name /= KnowledgeSourceName }
                    [] OTHER -> ksStore
    /\ kbStore' = CASE op = "createKnowledgeBase" ->
                         { k \in kbStore : k.name /= KnowledgeBaseName }
                             \cup {ScriptKnowledgeBase}
                    [] op = "deleteKnowledgeBase" ->
                         { k \in kbStore : k.name /= KnowledgeBaseName }
                    [] OTHER -> kbStore
    /\ searchIndex' = IF op = "deleteIndex" THEN [exists |-> FALSE, docs |-> 0]
                      ELSE searchIndex

query1 == "Why do suburban belts ...?"

query2 == "How do I find lava at night?"

\* { role: "user", content: [{ type: "text", text }] }
UserTextMessage(text) ==
    [role |-> "user", content |-> <<[type |-> "text", text |-> text]>>]

\* retrievalRequest.messages
retrievalRequest == <<UserTextMessage(query1)>>

\* retrievalRequest2.messages
retrievalRequest2 == <<UserTextMessage(query2)>>

\* the messages a call carries, when it is a retrieveKnowledge call
RequestsAfter(op) ==
    CASE op = "retrieveKnowledge1" -> Append(requests, retrievalRequest)
      [] op = "retrieveKnowledge2" -> Append(requests, retrievalRequest2)
      [] OTHER -> requests

\* one awaited SDK call after the indexing wait: it resolves and the script
\* goes on, or it rejects and the process ends
SdkCall(op) ==
    /\ spc = op
    /\ slog' = Append(slog, op)
    /\ requests' = RequestsAfter(op)
    /\ \/ /\ SdkEffect(op)
          /\ spc' = StepAfter(op)
          /\ exitCode' = IF StepAfter(op) = "done" THEN 0 ELSE exitCode
          /\ UNCHANGED failure
       \/ /\ ScriptAbort(op)
          /\ UNCHANGED svcVars
    /\ UNCHANGED <<unitVars, fetchVars, mode, rpc, uploadDocs, cleanupResources, restVariant,
                   instructions, getResponse, messages, rlog, thrown, rdocs, calls,
                   variant, documentsLength, count, reads, lastDelay, senderVars>>

SCreateKnowledgeSource == SdkCall("createKnowledgeSource")

SCreateKnowledgeBase == SdkCall("createKnowledgeBase")

SRetrieveKnowledge1 == SdkCall("retrieveKnowledge1")

SRetrieveKnowledge2 == SdkCall("retrieveKnowledge2")

SDeleteKnowledgeBase == SdkCall("deleteKnowledgeBase")

SDeleteKnowledgeSource == SdkCall("deleteKnowledgeSource")

SDeleteIndex == SdkCall("deleteIndex")

NextScript ==
    \/ SCreateOrUpdateIndex
    \/ SFetchDocuments
    \/ SUploadDocuments
    \/ SFlush
    \/ SDispose
    \/ SAutoFlush
    \/ SInitialDelay
    \/ SGetDocumentsCount
    \/ SLoopDelay
    \/ SCreateKnowledgeSource
    \/ SCreateKnowledgeBase
    \/ SRetrieveKnowledge1
    \/ SRetrieveKnowledge2
    \/ SDeleteKnowledgeBase
    \/ SDeleteKnowledgeSource
    \/ SDeleteIndex

SpecScript == InitScript /\ [][NextScript]_vars

LoopStatements == {"getDocumentsCount", "loopDelay"}

\* C2: in the polling script the statements after the loop are reached only
\* with count = documents.length, a value that a getDocumentsCount read
\* returned; createKnowledgeSource, createKnowledgeBase and both
\* retrieveKnowledge calls are issued only in such states.
C2_LoopExitCountMatches ==
    variant = "polling" =>
        /\ spc \in AfterWaitSteps \cup {"done"} =>
              count = documentsLength /\ reads >= 1
        /\ slog /= <<>> => count = documentsLength /\ reads >= 1

\* the polling script has issued both queries after a wait of several reads
C2_Witness ==
    /\ variant = "polling"
    /\ Len(slog) >= 4 /\ slog[4] = "retrieveKnowledge2"
    /\ documentsLength = 2 /\ count = 2 /\ reads >= 2

\* C6: once the upload stage is left (uploadDocuments has settled and the
\* script is neither at flush nor at dispose), dispose has been invoked exactly
\* once, after flush, whether the stage ended normally or by a rejected call.
C6_DisposeOnEveryExit ==
    (uploadCalls >= 1 /\ spc \notin {"flush", "dispose"}) =>
        disposeCalls = 1 /\ flushCalls = 1

\* C10: the loop has no retry bound. A getDocumentsCount read that succeeds
\* with a value other than documents.length (smaller or larger) leads to the
\* delay and nothing else: no exit, no error, no later stage; the delay leads
\* to the next read; and the loop is left for the later stages only by a read
\* that returned exactly documents.length.
C10_MismatchKeepsLooping ==
    [][ /\ (spc = "getDocumentsCount" /\ spc' /= spc /\ failure' /= "getDocumentsCount"
             /\ count' /= documentsLength)
            => (spc' = "loopDelay" /\ exitCode' = -1 /\ slog' = <<>>)
        /\ spc = "loopDelay" => (spc' \in LoopStatements /\ exitCode' = -1)
        /\ (spc \in LoopStatements /\ spc' \notin LoopStatements \cup {"aborted"})
            => (count' = documentsLength /\ spc' = AfterWait[1]) ]_vars

\* the loop is still running after MaxReads reads, the last one larger than
\* documents.length
C10_Witness ==
    /\ spc = "loopDelay"
    /\ reads = MaxReads
    /\ count > documentsLength

\* a delay of the polling script ends in this step
SleepEnds == variant = "polling" /\ spc \in {"delay", "loopDelay"} /\ spc' /= spc

\* a getDocumentsCount call of the loop is answered in this step
ReadAnswered ==
    /\ variant = "polling"
    /\ spc = "getDocumentsCount" /\ spc' /= spc
    /\ failure' /= "getDocumentsCount"

\* C11 as stated: the monitor reads first; a sleep happens only after a read
\* that did not match; a read that matches returns without sleeping; every
\* sleep lasts WAIT_TIME and is followed by one new read.
C11_ReadFirstSleepAfterMismatch ==
    [][ /\ SleepEnds => /\ reads >= 1 /\ count /= documentsLength
                        /\ lastDelay' = WAIT_TIME
                        /\ spc' = "getDocumentsCount"
        /\ (ReadAnswered /\ count' = documentsLength) => spc' = AfterWait[1] ]_vars

\* C11 (amended): the monitor sleeps WAIT_TIME once before its first read,
\* whatever the index holds; after that a sleep happens only after a read that
\* did not match; a read that matches leaves the loop without another sleep;
\* every sleep lasts WAIT_TIME and leads to exactly one new read, and every
\* read is preceded by a sleep.
C11_SleepThenReadUntilMatch ==
    [][ /\ SleepEnds => /\ lastDelay' = WAIT_TIME
                        /\ spc' = "getDocumentsCount"
                        /\ reads' = reads
                        /\ spc = "delay" => (reads = 0 /\ count = -1)
                        /\ spc = "loopDelay" => (reads >= 1 /\ count /= documentsLength)
        /\ ReadAnswered => /\ reads' = CountUpTo(reads, MaxReads)
                           /\ lastDelay' = lastDelay
                           /\ spc' = IF count' = documentsLength THEN AfterWait[1]
                                     ELSE "loopDelay"
        /\ (variant = "polling" /\ spc' = "getDocumentsCount" /\ spc /= spc')
              => spc \in {"delay", "loopDelay"}
        /\ (variant = "polling" /\ reads' /= reads) => spc = "getDocumentsCount" ]_vars

\* the loop was left by its second read: one sleep before the first read, one
\* after the read that did not match
C11_Witness ==
    /\ variant = "polling"
    /\ spc = AfterWait[1]
    /\ reads = 2
    /\ count = documentsLength
    /\ lastDelay = WAIT_TIME

\* C12: in every variant of the script, knowledge registration and retrieval
\* start only after convergence was confirmed: the statements after the
\* indexing wait are reached, and their requests issued, only when a
\* getDocumentsCount read has returned documents.length.
C12_RegistrationAfterConvergence ==
    /\ spc \in AfterWaitSteps \cup {"done"} => (reads >= 1 /\ count = documentsLength)
    /\ slog /= <<>> => (reads >= 1 /\ count = documentsLength)

\* C13: the follow-up retrieval request of the script carries the first turn:
\* its messages hold the first question, then an assistant turn (the answer
\* returned for it), then the follow-up question.
C13_FollowUpCarriesFirstTurn ==
    Len(requests) >= 2 =>
        LET r == requests[2]
        IN \E i, j, k \in 1..Len(r) :
              /\ i < j /\ j < k
              /\ r[i] = UserTextMessage(query1)
              /\ r[j].role = "assistant"
              /\ r[k] = UserTextMessage(query2)

\* C15: stages never overlap and start in the fixed order: documents are
\* dispatched to the index only while the script awaits uploadDocuments or
\* flush (never while another stage's call is outstanding), and the calls
\* after the indexing wait are issued in the order of AfterWait, one at a time.
C15_StagesNeverOverlap ==
    [][ /\ queue' < queue => spc \in {"uploadDocuments", "flush"}
        /\ searchIndex'.docs > searchIndex.docs => spc \in {"uploadDocuments", "flush"}
        /\ Len(slog') <= Len(AfterWait)
        /\ \A i \in 1..Len(slog') : slog'[i] = AfterWait[i]
        /\ Len(slog') <= Len(slog) + 1 ]_vars

\* C20: uploadDocuments is called at most once in a run (exactly once in a run
\* that gets past the upload); a batchFailed event adds no call; documents
\* enter the sender only in that one call, and a dispatch by flush or by the
\* timer empties the queue also when the batch fails: no document of a failed
\* batch is handed to the sender again.
C20_NoResubmission ==
    [][ /\ uploadCalls' <= 1
        /\ uploadCalls' /= uploadCalls
           => (spc = "uploadDocuments" /\ uploadCalls = 0 /\ batchFailedEvents = 0)
        /\ queue' > queue => spc = "uploadDocuments"
        /\ (spc = "uploadDocuments" /\ spc' /= spc) => queue' <= documentsLength
        /\ (spc /= "uploadDocuments" /\ queue' /= queue) => queue' = 0
        /\ batchFailedEvents >= 1 => (uploadCalls' = uploadCalls /\ queue' <= queue)
        /\ spc' \in AfterWaitSteps \cup {"delay", "getDocumentsCount", "loopDelay", "done"}
           => uploadCalls' = 1 ]_vars

\* a batch failed during flush; the script is polling and has not called
\* uploadDocuments again
C20_Witness ==
    /\ variant = "polling"
    /\ batchFailedEvents >= 1
    /\ flushCalls = 1
    /\ uploadCalls = 1
    /\ queue = 0
    /\ spc = "loopDelay" /\ reads >= 2

----------------------------------------------------------------------------
(* The search service as the REST variant sees it.  A request is answered    *)
(* from the service's state, or with a fault status, or the fetch rejects    *)
(* (status 0: no response).                                                   *)

\* statuses with which the service may refuse any request
FaultStatuses == {401, 500}

Named(store, name) == { r \in store : r.name = name }

\* GET by name: 200 when the resource exists, 404 when it does not
ProbeStatuses(store, name) ==
    (IF Named(store, name) /= {} THEN {200} ELSE {404}) \cup FaultStatuses \cup {0}

\* POST to the collection: 201 and the resource is created, 409 when a resource
\* of that name exists
PostStatuses(store, name) ==
    (IF Named(store, name) /= {} THEN {409} ELSE {201}) \cup FaultStatuses \cup {0}

\* PUT by name: 201 creates, 200 replaces
PutStatuses(store, name) ==
    (IF Named(store, name) /= {} THEN {200} ELSE {201}) \cup FaultStatuses \cup {0}

\* DELETE by name: 204 when the resource existed, 404 when it did not
DeleteStatuses(store, name) ==
    (IF Named(store, name) /= {} THEN {204} ELSE {404}) \cup FaultStatuses \cup {0}

StoreAfterPost(store, r, status) == IF status = 201 THEN store \cup {r} ELSE store

StoreAfterPut(store, r, status) ==
    IF Ok(status) THEN (store \ Named(store, r.name)) \cup {r} ELSE store

StoreAfterDelete(store, name, status) ==
    IF Ok(status) THEN store \ Named(store, name) ELSE store

----------------------------------------------------------------------------
(* The REST variant: shared plumbing *)

Ev(op, status, body) == [op |-> op, status |-> status, body |-> body]

\* new Error(`Failed to ...: ${response.status} ...\n${errorText}`); a rejected
\* fetch or SDK call propagates its own error, which has no HTTP status
ErrorOf(kind, status, body) ==
    IF status = 0 THEN [kind |-> "rejected", status |-> 0, body |-> ""]
    ELSE [kind |-> kind, status |-> status, body |-> body]

\* error texts the service sends with a non-success status
ErrorTexts == {"errorText-a", "errorText-b"}

\* process.exit(1) in the catch of the top-level wrapper
ExitCodeOnError == 1

\* cleanupAllResources without `if (!cleanup) return`
Stages_AlwaysCleanup(upload, cleanup) ==
    (IF upload THEN <<"createSearchIndex", "uploadDocuments">> ELSE <<>>)
    \o <<"createKnowledgeSource", "createKnowledgeBase", "runAgenticRetrieval">>
    \o <<"deleteKnowledgeBase", "deleteKnowledgeSource", "deleteSearchIndex">>

\* prepareSearchService without `if (uploadDocs)`
Stages_AlwaysUpload(upload, cleanup) ==
    <<"createSearchIndex", "uploadDocuments">>
    \o <<"createKnowledgeSource", "createKnowledgeBase", "runAgenticRetrieval">>
    \o (IF cleanup THEN <<"deleteKnowledgeBase", "deleteKnowledgeSource", "deleteSearchIndex">>
        ELSE <<>>)

\* the stages of main in call order, given the two toggles
Stages(upload, cleanup) ==
    (IF upload THEN <<"createSearchIndex", "uploadDocuments">> ELSE <<>>)
    \o <<"createKnowledgeSource", "createKnowledgeBase", "runAgenticRetrieval">>
    \o (IF cleanup THEN <<"deleteKnowledgeBase", "deleteKnowledgeSource", "deleteSearchIndex">>
        ELSE <<>>)

\* the first await of each function
EntryOf(fn) ==
    CASE fn = "createSearchIndex" -> "createOrUpdateIndex"
      [] fn = "uploadDocuments" -> "fetchDocuments"
      [] fn = "createKnowledgeSource" -> "ksProbe"
      [] fn = "createKnowledgeBase" -> "kbProbe"
      [] fn = "runAgenticRetrieval" -> "retrieve1"
      [] fn = "deleteKnowledgeBase" -> "deleteKnowledgeBase"
      [] fn = "deleteKnowledgeSource" -> "deleteKnowledgeSource"
      [] fn = "deleteSearchIndex" -> "deleteSearchIndex"

\* where control goes when fn returns normally
AfterReturn(fn) ==
    IF mode = "harness"
    THEN CASE fn = "deleteKnowledgeBase" -> "deleteKnowledgeSource"
           [] fn = "deleteKnowledgeSource" -> "deleteSearchIndex"
           [] OTHER -> "idle"
    ELSE LET st == Stages(uploadDocs, cleanupResources)
             i == CHOOSE j \in 1..Len(st) : st[j] = fn
         IN IF i = Len(st) THEN "done" ELSE EntryOf(st[i + 1])

\* fn returns: in main the next stage starts, and after the last one main
\* resolves and the process ends with code 0
Return(fn, events) ==
    /\ rlog' = rlog \o events \o <<Ev("return " \o fn, 0, "")>>
    /\ rpc' = AfterReturn(fn)
    /\ thrown' = thrown
    /\ exitCode' = IF AfterReturn(fn) = "done" THEN 0 ELSE exitCode

\* main with the cleanup in a `finally`: a stage that throws is followed by
\* the deletions when cleanup is enabled
Throw_ThenCleanup(fn, events, err) ==
    /\ rlog' = rlog \o events \o <<Ev("throw " \o fn, err.status, "")>>
    /\ thrown' = err
    /\ rpc' = IF mode = "harness" THEN "idle"
              ELSE IF cleanupResources /\ fn \notin {"deleteKnowledgeBase",
                          "deleteKnowledgeSource", "deleteSearchIndex"}
              THEN "deleteKnowledgeBase" ELSE "failed"
    /\ exitCode' = IF mode = "harness" THEN exitCode ELSE ExitCodeOnError

\* the top-level wrapper without process.exit(1): the error is logged and the
\* process ends with code 0
Throw_ExitZero(fn, events, err) ==
    /\ rlog' = rlog \o events \o <<Ev("throw " \o fn, err.status, "")>>
    /\ thrown' = err
    /\ rpc' = IF mode = "harness" THEN "idle" ELSE "failed"
    /\ exitCode' = IF mode = "harness" THEN exitCode ELSE 0

\* fn throws err: every catch block on the way logs and rethrows; main's
\* caller (the top-level wrapper) catches and calls process.exit(1);
\* a harness catches the error itself
Throw(fn, events, err) ==
    /\ rlog' = rlog \o events \o <<Ev("throw " \o fn, err.status, "")>>
    /\ thrown' = err
    /\ rpc' = IF mode = "harness" THEN "idle" ELSE "failed"
    /\ exitCode' = IF mode = "harness" THEN exitCode ELSE ExitCodeOnError

\* fn goes on to its next await
Continue(events, next) ==
    /\ rlog' = rlog \o events
    /\ rpc' = next
    /\ UNCHANGED <<thrown, exitCode>>

----------------------------------------------------------------------------
(* Knowledge Registration (REST variant) *)

\* knowledgeSourceDefinition
RestKnowledgeSource == [name |-> KnowledgeSourceName, def |-> "searchIndex:id,page_number"]

\* knowledgeBaseDefinition with the answerInstructions of the build that runs
RestKnowledgeBase(instr) == [name |-> KnowledgeBaseName, def |-> instr]

\* createKnowledgeSource without the `if (getResponse.ok) return`: always POST
KsProbe_AlwaysCreate ==
    /\ rpc = "ksProbe"
    /\ \E status \in ProbeStatuses(ksStore, KnowledgeSourceName) :
          /\ getResponse' = status
          /\ IF status = 0
             THEN Throw("createKnowledgeSource", <<Ev("GET knowledgesources", status, "")>>,
                        ErrorOf("rejected", 0, ""))
             ELSE Continue(<<Ev("GET knowledgesources", status, "")>>, "ksCreate")
    /\ UNCHANGED <<unitVars, fetchVars, svcVars, scriptOnlyVars, mode, uploadDocs, cleanupResources,
                   restVariant, instructions, messages, requests, rdocs, calls>>

\* createKnowledgeSource up to its second await: getAccessToken, the GET probe,
\* `if (getResponse.ok) return`
KsProbe ==
    /\ rpc = "ksProbe"
    /\ \E status \in ProbeStatuses(ksStore, KnowledgeSourceName) :
          /\ getResponse' = status
          /\ IF status = 0
             THEN Throw("createKnowledgeSource", <<Ev("GET knowledgesources", status, "")>>,
                        ErrorOf("rejected", 0, ""))
             ELSE IF Ok(status)
             THEN Return("createKnowledgeSource", <<Ev("GET knowledgesources", status, "")>>)
             ELSE Continue(<<Ev("GET knowledgesources", status, "")>>, "ksCreate")
    /\ UNCHANGED <<unitVars, fetchVars, svcVars, scriptOnlyVars, mode, uploadDocs, cleanupResources,
                   restVariant, instructions, messages, requests, rdocs, calls>>

\* createKnowledgeSource from the POST on: `if (!response.ok) throw`
KsCreate ==
    /\ rpc = "ksCreate"
    /\ \E status \in PostStatuses(ksStore, KnowledgeSourceName) : \E text \in ErrorTexts :
          /\ ksStore' = StoreAfterPost(ksStore, RestKnowledgeSource, status)
          /\ IF Ok(status)
             THEN Return("createKnowledgeSource", <<Ev("POST knowledgesources", status, "")>>)
             ELSE Throw("createKnowledgeSource",
                        <<Ev("POST knowledgesources", status, "")>>,
                        ErrorOf("Failed to create knowledge source", status, text))
    /\ UNCHANGED <<unitVars, fetchVars, searchIndex, kbStore, scriptOnlyVars, mode, uploadDocs,
                   cleanupResources, restVariant, instructions, getResponse, messages,
                   requests, rdocs, calls>>

\* createKnowledgeBase with a checked probe: a non-success status other than
\* 404 throws before the PUT
KbProbe_ThrowOnFailure ==
    /\ rpc = "kbProbe"
    /\ \E status \in ProbeStatuses(kbStore, KnowledgeBaseName) :
          /\ getResponse' = status
          /\ IF status = 0 \/ (~Ok(status) /\ status /= 404)
             THEN Throw("createKnowledgeBase", <<Ev("GET knowledgebases", status, "")>>,
                        ErrorOf("Failed to get knowledge base", status, ""))
             ELSE Continue(<<Ev("GET knowledgebases", status, "")>>, "kbPut")
    /\ UNCHANGED <<unitVars, fetchVars, svcVars, scriptOnlyVars, mode, uploadDocs, cleanupResources,
                   restVariant, instructions, messages, requests, rdocs, calls>>

\* createKnowledgeBase up to its second await: getAccessToken and the GET probe,
\* whose status is used only to word the success message
KbProbe ==
    /\ rpc = "kbProbe"
    /\ \E status \in ProbeStatuses(kbStore, KnowledgeBaseName) :
          /\ getResponse' = status
          /\ IF status = 0
             THEN Throw("createKnowledgeBase", <<Ev("GET knowledgebases", status, "")>>,
                        ErrorOf("rejected", 0, ""))
             ELSE Continue(<<Ev("GET knowledgebases", status, "")>>, "kbPut")
    /\ UNCHANGED <<unitVars, fetchVars, svcVars, scriptOnlyVars, mode, uploadDocs, cleanupResources,
                   restVariant, instructions, messages, requests, rdocs, calls>>

\* createKnowledgeBase written skip-if-exists, as createKnowledgeSource is
KbPut_SkipIfExists ==
    /\ rpc = "kbPut"
    /\ IF Ok(getResponse)
       THEN /\ Return("createKnowledgeBase", <<>>)
            /\ UNCHANGED kbStore
       ELSE \E status \in PutStatuses(kbStore, KnowledgeBaseName) : \E text \in ErrorTexts :
              /\ kbStore' = StoreAfterPut(kbStore, RestKnowledgeBase(instructions), status)
              /\ IF Ok(status)
                 THEN Return("createKnowledgeBase", <<Ev("PUT knowledgebases", status, "")>>)
                 ELSE Throw("createKnowledgeBase",
                            <<Ev("PUT knowledgebases", status, "")>>,
                            ErrorOf("Failed to create knowledge base", status, text))
    /\ UNCHANGED <<unitVars, fetchVars, searchIndex, ksStore, scriptOnlyVars, mode, uploadDocs,
                   cleanupResources, restVariant, instructions, getResponse, messages,
                   requests, rdocs, calls>>

\* createKnowledgeBase from the PUT on: `if (!response.ok) throw`
KbPut ==
    /\ rpc = "kbPut"
    /\ \E status \in PutStatuses(kbStore, KnowledgeBaseName) : \E text \in ErrorTexts :
          /\ kbStore' = StoreAfterPut(kbStore, RestKnowledgeBase(instructions), status)
          /\ IF Ok(status)
             THEN Return("createKnowledgeBase", <<Ev("PUT knowledgebases", status, "")>>)
             ELSE Throw("createKnowledgeBase",
                        <<Ev("PUT knowledgebases", status, "")>>,
                        ErrorOf("Failed to create knowledge base", status, text))
    /\ UNCHANGED <<unitVars, fetchVars, searchIndex, ksStore, scriptOnlyVars, mode, uploadDocs,
                   cleanupResources, restVariant, instructions, getResponse, messages,
                   requests, rdocs, calls>>

----------------------------------------------------------------------------
(* The REST variant: main = prepareSearchService, runAgenticRetrieval,       *)
(* cleanupAllResources.  restVariant "withChat" is the variant that calls    *)
(* generateFinalAnswer (a chat completion) after each retrieval.             *)

SystemMessage == [role |-> "system", content |-> "A Q&A agent ..."]

FirstQuestion == [role |-> "user", content |-> "Why do suburban belts ...?"]

FollowUpQuestion == [role |-> "user", content |-> "How do I find lava at night?"]

Assistant(content) == [role |-> "assistant", content |-> content]

\* messages.filter(m => m.role !== "system")
RECURSIVE FilterNonSystem(_)
FilterNonSystem(ms) ==
    IF ms = <<>> THEN <<>>
    ELSE IF Head(ms).role /= "system" THEN <<Head(ms)>> \o FilterNonSystem(Tail(ms))
    ELSE FilterNonSystem(Tail(ms))

\* callAgenticRetrieval: messages.map(msg => ({ role, content: [{ type, text }] }))
AgentMessage(msg) ==
    [role |-> msg.role, content |-> <<[type |-> "text", text |-> msg.content]>>]

AgentMessages(ms) == [i \in 1..Len(ms) |-> AgentMessage(ms[i])]

\* bodies of a 200 retrieval response: `response` is a string, `response` is
\* an array, there is no `response` field, the JSON value is null, or the
\* body is not JSON
RetrievalBodies ==
    { [t |-> "string", text |-> "answer"], [t |-> "array", text |-> "answer"],
      [t |-> "noResponse", text |-> ""], [t |-> "null", text |-> ""],
      [t |-> "notJson", text |-> ""] }

\* JSON.stringify of the response array
JsonStringify(text) == "[{content:[{text:" \o text \o "}]}]"

extractAssistantContent(body) ==
    IF body.t = "string" THEN body.text
    ELSE IF body.t = "array" THEN JsonStringify(body.text)
    ELSE ""

\* outcomes of the GET of documents.json served to main
RestTransports ==
    { t \in Transports :
        \/ t.kind = "networkError"
        \/ t.status = 200 /\ t.body.t = "array" /\ t.body.items = <<>>
        \/ t.status = 200 /\ t.body.t = "array" /\ Len(t.body.items) = 1
           /\ t.body.items[1].t = "rec" /\ t.body.items[1].has = FieldNames
           /\ t.body.items[1].id = "1" }

\* the service before the run: nothing, or what an earlier run left
\* (CLEANUP_RESOURCES=false), its knowledge base from an older build
EarlierRuns ==
    { [index |-> [exists |-> FALSE, docs |-> 0], ks |-> {}, kb |-> {}],
      [index |-> [exists |-> TRUE, docs |-> 0], ks |-> {RestKnowledgeSource},
       kb |-> {RestKnowledgeBase("one sentence answer")}] }

InitRest ==
    /\ FetchUnused
    /\ ScriptUnused
    /\ \E e \in EarlierRuns :
          /\ searchIndex = e.index
          /\ ksStore = e.ks
          /\ kbStore = e.kb
    /\ PrintUnused
    /\ RaceUnused
    /\ env \in [UPLOAD_DOCS : {Undefined, Str("false")},
                 CLEANUP_RESOURCES : {Undefined, Str("false")}]
    /\ mode = "main"
    /\ uploadDocs = Toggle(env.UPLOAD_DOCS)
    /\ cleanupResources = Toggle(env.CLEANUP_RESOURCES)
    /\ restVariant \in {"retrieval", "withChat"}
    /\ rpc = EntryOf(Stages(uploadDocs, cleanupResources)[1])
    /\ instructions = AnswerInstructions
    /\ getResponse = 0
    /\ messages = <<>>
    /\ requests = <<>>
    /\ rlog = <<>>
    /\ thrown = NoError
    /\ rdocs = <<>>
    /\ calls = 0

\* createSearchIndex: await indexClient.createOrUpdateIndex(index)
RCreateSearchIndex ==
    /\ rpc = "createOrUpdateIndex"
    /\ \E status \in {200, 0} :
          IF Ok(status)
          THEN /\ searchIndex' = [searchIndex EXCEPT !.exists = TRUE]
               /\ Return("createSearchIndex", <<Ev("createOrUpdateIndex", status, "")>>)
          ELSE /\ UNCHANGED searchIndex
               /\ Throw("createSearchIndex", <<Ev("createOrUpdateIndex", status, "")>>,
                        ErrorOf("rejected", 0, ""))
    /\ UNCHANGED <<unitVars, fetchVars, ksStore, kbStore, scriptOnlyVars, mode, uploadDocs,
                   cleanupResources, restVariant, instructions, getResponse, messages,
                   requests, rdocs, calls>>

\* uploadDocuments: const documents = await fetchEarthAtNightDocuments()
RFetchDocuments ==
    /\ rpc = "fetchDocuments"
    /\ \E t \in RestTransports :
          LET r == fetchEarthAtNightDocuments(t)
          IN /\ rdocs' = r.value
             /\ IF r.threw
                THEN Throw("uploadDocuments", <<Ev("GET documents.json", t.status, "")>>,
                           ErrorOf("rejected", 0, ""))
                ELSE Continue(<<Ev("GET documents.json", t.status, "")>>,
                              "searchClient.uploadDocuments")
    /\ UNCHANGED <<unitVars, fetchVars, svcVars, scriptOnlyVars, mode, uploadDocs, cleanupResources,
                   restVariant, instructions, getResponse, messages, requests, calls>>

\* uploadDocuments: const result = await searchClient.uploadDocuments(documents);
\* the call resolves also when the service refuses some of the documents
RUploadDocuments ==
    /\ rpc = "searchClient.uploadDocuments"
    /\ \E status \in {200, 0} :
          IF Ok(status)
          THEN /\ \E good \in 0..Len(rdocs) :
                     searchIndex' = [searchIndex EXCEPT !.docs = @ + good]
               /\ Continue(<<Ev("uploadDocuments", status, "")>>, "indexingWait")
          ELSE /\ UNCHANGED searchIndex
               /\ Throw("uploadDocuments", <<Ev("uploadDocuments", status, "")>>,
                        ErrorOf("rejected", 0, ""))
    /\ UNCHANGED <<unitVars, fetchVars, ksStore, kbStore, scriptOnlyVars, mode, uploadDocs,
                   cleanupResources, restVariant, instructions, getResponse, messages,
                   requests, rdocs, calls>>

\* uploadDocuments: await new Promise(resolve => setTimeout(resolve, 5000)),
\* then the function returns and `documents` goes out of scope
RIndexingWait ==
    /\ rpc = "indexingWait"
    /\ Return("uploadDocuments", <<>>)
    /\ rdocs' = <<>>
    /\ UNCHANGED <<unitVars, fetchVars, svcVars, scriptOnlyVars, mode, uploadDocs, cleanupResources,
                   restVariant, instructions, getResponse, messages, requests, calls>>

\* runAgenticRetrieval without the filter: the whole conversation is sent
RSendFirstQuery_SendsAll ==
    /\ rpc = "retrieve1"
    /\ messages' = <<SystemMessage, FirstQuestion>>
    /\ requests' = Append(requests, AgentMessages(messages'))
    /\ rpc' = "awaitRetrieve1"
    /\ UNCHANGED <<unitVars, fetchVars, svcVars, scriptVars, mode, uploadDocs, cleanupResources,
                   restVariant, instructions, getResponse, rlog, thrown, rdocs, calls>>

\* runAgenticRetrieval up to the fetch of callAgenticRetrieval: the
\* conversation is created and its non-system turns are sent
RSendFirstQuery ==
    /\ rpc = "retrieve1"
    /\ messages' = <<SystemMessage, FirstQuestion>>
    /\ requests' = Append(requests, AgentMessages(FilterNonSystem(messages')))
    /\ rpc' = "awaitRetrieve1"
    /\ UNCHANGED <<unitVars, fetchVars, svcVars, scriptVars, mode, uploadDocs, cleanupResources,
                   restVariant, instructions, getResponse, rlog, thrown, rdocs, calls>>

\* a caller that takes the unanswered question back out of the conversation
\* when the request fails
Receive_RollbackOnError(fn, next) ==
    \E status \in {200} \cup FaultStatuses :
       IF ~Ok(status)
       THEN \E text \in ErrorTexts :
               /\ Throw(fn, <<Ev("POST retrieve", status, text)>>,
                        ErrorOf("Agentic retrieval failed", status, text))
               /\ messages' = SubSeq(messages, 1, Len(messages) - 1)
       ELSE /\ messages' = Append(messages, Assistant("answer"))
            /\ IF next = "return"
               THEN Return(fn, <<Ev("POST retrieve", status, "string")>>)
               ELSE Continue(<<Ev("POST retrieve", status, "string")>>, next)

\* callAgenticRetrieval without `if (!response.ok) throw`: the body of an
\* error response is parsed like an answer (it has no `response` field)
Receive_NoStatusCheck(fn, next) ==
    \E status \in {200} \cup FaultStatuses :
       \E text \in ErrorTexts :
          /\ messages' = Append(messages, Assistant(""))
          /\ IF next = "return"
             THEN Return(fn, <<Ev("POST retrieve", status, text)>>)
             ELSE Continue(<<Ev("POST retrieve", status, text)>>, next)

\* callAgenticRetrieval from the response on, and its caller up to the next
\* await: `if (!response.ok) throw`, response.json(), extractAssistantContent,
\* messages.push(assistant)
Receive(fn, next) ==
    \E status \in {200} \cup FaultStatuses \cup {0} :
       IF status = 0
       THEN /\ Throw(fn, <<Ev("POST retrieve", 0, "")>>, ErrorOf("rejected", 0, ""))
            /\ UNCHANGED messages
       ELSE IF ~Ok(status)
       THEN \E text \in ErrorTexts :
               /\ Throw(fn, <<Ev("POST retrieve", status, text)>>,
                        ErrorOf("Agentic retrieval failed", status, text))
               /\ UNCHANGED messages
       ELSE \E body \in RetrievalBodies :
               IF body.t \in {"notJson", "null"}
               THEN /\ Throw(fn, <<Ev("POST retrieve", status, body.t)>>,
                             [kind |-> IF body.t = "null" THEN "TypeError" ELSE "SyntaxError",
                              status |-> 0, body |-> ""])
                    /\ UNCHANGED messages
               ELSE /\ messages' = Append(messages, Assistant(extractAssistantContent(body)))
                    /\ IF next = "return"
                       THEN Return(fn, <<Ev("POST retrieve", status, body.t)>>)
                       ELSE Continue(<<Ev("POST retrieve", status, body.t)>>, next)

RReceiveFirstAnswer ==
    /\ rpc = "awaitRetrieve1"
    /\ Receive("runAgenticRetrieval",
               IF restVariant = "withChat" THEN "chat1" ELSE "retrieve2")
    /\ UNCHANGED <<unitVars, fetchVars, svcVars, scriptOnlyVars, mode, uploadDocs, cleanupResources,
                   restVariant, instructions, getResponse, requests, rdocs, calls>>

\* generateFinalAnswer: the chat completion over the whole conversation;
\* `if (answer) messages.push(assistant)`
GenerateFinalAnswer(next) ==
    \E outcome \in {"answer", "empty", "rejected"} :
       IF outcome = "rejected"
       THEN /\ Throw("runAgenticRetrieval", <<Ev("chat.completions.create", 0, "")>>,
                     ErrorOf("rejected", 0, ""))
            /\ UNCHANGED messages
       ELSE /\ messages' = IF outcome = "answer"
                           THEN Append(messages, Assistant("final answer"))
                           ELSE messages
            /\ IF next = "return"
               THEN Return("runAgenticRetrieval",
                           <<Ev("chat.completions.create", 200, outcome)>>)
               ELSE Continue(<<Ev("chat.completions.create", 200, outcome)>>, next)

RGenerateFinalAnswer1 ==
    /\ rpc = "chat1"
    /\ GenerateFinalAnswer("retrieve2")
    /\ UNCHANGED <<unitVars, fetchVars, svcVars, scriptOnlyVars, mode, uploadDocs, cleanupResources,
                   restVariant, instructions, getResponse, requests, rdocs, calls>>

\* continueConversation sending a request built from the follow-up question
\* alone
RSendFollowUp_FollowUpOnly ==
    /\ rpc = "retrieve2"
    /\ messages' = Append(messages, FollowUpQuestion)
    /\ requests' = Append(requests, AgentMessages(<<FollowUpQuestion>>))
    /\ rpc' = "awaitRetrieve2"
    /\ UNCHANGED <<unitVars, fetchVars, svcVars, scriptVars, mode, uploadDocs, cleanupResources,
                   restVariant, instructions, getResponse, rlog, thrown, rdocs, calls>>

\* continueConversation up to the fetch of callAgenticRetrieval:
\* messages.push(follow-up question), filter, send
RSendFollowUp ==
    /\ rpc = "retrieve2"
    /\ messages' = Append(messages, FollowUpQuestion)
    /\ requests' = Append(requests, AgentMessages(FilterNonSystem(messages')))
    /\ rpc' = "awaitRetrieve2"
    /\ UNCHANGED <<unitVars, fetchVars, svcVars, scriptVars, mode, uploadDocs, cleanupResources,
                   restVariant, instructions, getResponse, rlog, thrown, rdocs, calls>>

RReceiveFollowUpAnswer ==
    /\ rpc = "awaitRetrieve2"
    /\ Receive("runAgenticRetrieval",
               IF restVariant = "withChat" THEN "chat2" ELSE "return")
    /\ UNCHANGED <<unitVars, fetchVars, svcVars, scriptOnlyVars, mode, uploadDocs, cleanupResources,
                   restVariant, instructions, getResponse, requests, rdocs, calls>>

RGenerateFinalAnswer2 ==
    /\ rpc = "chat2"
    /\ GenerateFinalAnswer("return")
    /\ UNCHANGED <<unitVars, fetchVars, svcVars, scriptOnlyVars, mode, uploadDocs, cleanupResources,
                   restVariant, instructions, getResponse, requests, rdocs, calls>>

\* handleDeleteResponse without the `response.status === 404` branch
HandleDeleteResponse_Strict(fn, op, status, text) ==
    IF Ok(status)
    THEN Return(fn, <<Ev(op, status, "")>>)
    ELSE Throw(fn, <<Ev(op, status, "")>>, ErrorOf("Failed to delete", status, text))

\* handleDeleteResponse that reports every non-success status and returns
HandleDeleteResponse_TolerateAll(fn, op, status, text) ==
    IF status /= 0
    THEN Return(fn, <<Ev(op, status, "")>>)
    ELSE Throw(fn, <<Ev(op, status, "")>>, ErrorOf("Failed to delete", status, text))

\* handleDeleteResponse: a 404 is reported and tolerated, any other
\* non-success status throws
HandleDeleteResponse(fn, op, status, text) ==
    IF Ok(status) \/ status = 404
    THEN Return(fn, <<Ev(op, status, "")>>)
    ELSE Throw(fn, <<Ev(op, status, "")>>, ErrorOf("Failed to delete", status, text))

RDeleteKnowledgeBase ==
    /\ rpc = "deleteKnowledgeBase"
    /\ \E status \in DeleteStatuses(kbStore, KnowledgeBaseName) : \E text \in ErrorTexts :
          /\ kbStore' = StoreAfterDelete(kbStore, KnowledgeBaseName, status)
          /\ HandleDeleteResponse("deleteKnowledgeBase", "DELETE knowledgebases", status, text)
    /\ UNCHANGED <<unitVars, fetchVars, searchIndex, ksStore, scriptOnlyVars, mode, uploadDocs,
                   cleanupResources, restVariant, instructions, getResponse, messages,
                   requests, rdocs, calls>>

RDeleteKnowledgeSource ==
    /\ rpc = "deleteKnowledgeSource"
    /\ \E status \in DeleteStatuses(ksStore, KnowledgeSourceName) : \E text \in ErrorTexts :
          /\ ksStore' = StoreAfterDelete(ksStore, KnowledgeSourceName, status)
          /\ HandleDeleteResponse("deleteKnowledgeSource", "DELETE knowledgesources", status,
                                  text)
    /\ UNCHANGED <<unitVars, fetchVars, searchIndex, kbStore, scriptOnlyVars, mode, uploadDocs,
                   cleanupResources, restVariant, instructions, getResponse, messages,
                   requests, rdocs, calls>>

\* deleteSearchIndex: indexClient.deleteIndex; an error with statusCode 404
\* (or code IndexNotFound) is tolerated, any other error is rethrown
RDeleteSearchIndex ==
    /\ rpc = "deleteSearchIndex"
    /\ \E status \in (IF searchIndex.exists THEN {204} ELSE {404}) \cup FaultStatuses \cup {0} :
          LET error == [statusCode |-> status,
                        code |-> IF status = 404 THEN "IndexNotFound" ELSE "RestError"]
          IN /\ searchIndex' = IF Ok(status) THEN [exists |-> FALSE, docs |-> 0]
                               ELSE searchIndex
             /\ IF Ok(status) \/ error.statusCode = 404 \/ error.code = "IndexNotFound"
                THEN Return("deleteSearchIndex", <<Ev("deleteIndex", status, "")>>)
                ELSE Throw("deleteSearchIndex", <<Ev("deleteIndex", status, "")>>,
                           ErrorOf("RestError", status, ""))
    /\ UNCHANGED <<unitVars, fetchVars, ksStore, kbStore, scriptOnlyVars, mode, uploadDocs,
                   cleanupResources, restVariant, instructions, getResponse, messages,
                   requests, rdocs, calls>>

NextRest ==
    \/ RCreateSearchIndex
    \/ RFetchDocuments
    \/ RUploadDocuments
    \/ RIndexingWait
    \/ KsProbe
    \/ KsCreate
    \/ KbProbe
    \/ KbPut
    \/ RSendFirstQuery
    \/ RReceiveFirstAnswer
    \/ RGenerateFinalAnswer1
    \/ RSendFollowUp
    \/ RReceiveFollowUpAnswer
    \/ RGenerateFinalAnswer2
    \/ RDeleteKnowledgeBase
    \/ RDeleteKnowledgeSource
    \/ RDeleteSearchIndex

SpecRest == InitRest /\ [][NextRest]_vars

----------------------------------------------------------------------------
(* A caller that invokes createKnowledgeSource and createKnowledgeBase one    *)
(* after the other against one service, each createKnowledgeBase with the     *)
(* answerInstructions of the build it runs.                                   *)

\* calls a harness makes
MaxCalls == 2

InstructionSet == {AnswerInstructions, "one sentence answer"}

\* resources a service may hold before the program runs (left by an earlier
\* run with CLEANUP_RESOURCES=false, possibly of an older build)
EarlierKnowledgeSources ==
    { {}, {RestKnowledgeSource}, {[name |-> KnowledgeSourceName, def |-> "searchIndex"]} }

EarlierKnowledgeBases == { {} } \cup { {RestKnowledgeBase(i)} : i \in InstructionSet }

InitReg ==
    /\ UnitsUnused
    /\ FetchUnused
    /\ ScriptUnused
    /\ searchIndex = [exists |-> TRUE, docs |-> 0]
    /\ ksStore \in EarlierKnowledgeSources
    /\ kbStore \in EarlierKnowledgeBases
    /\ mode = "harness"
    /\ rpc = "idle"
    /\ uploadDocs = FALSE
    /\ cleanupResources = FALSE
    /\ restVariant = "retrieval"
    /\ instructions = AnswerInstructions
    /\ getResponse = 0
    /\ messages = <<>>
    /\ requests = <<>>
    /\ rlog = <<>>
    /\ thrown = NoError
    /\ rdocs = <<>>
    /\ calls = 0

\* await createKnowledgeSource(credential)
CallCreateKnowledgeSource ==
    /\ mode = "harness" /\ rpc = "idle" /\ calls < MaxCalls
    /\ calls' = calls + 1
    /\ rpc' = "ksProbe"
    /\ thrown' = NoError
    /\ rlog' = Append(rlog, Ev("call createKnowledgeSource", 0, ""))
    /\ UNCHANGED <<unitVars, fetchVars, svcVars, scriptVars, mode, uploadDocs, cleanupResources,
                   restVariant, instructions, getResponse, messages, requests, rdocs>>

\* await createKnowledgeBase(credential)
CallCreateKnowledgeBase ==
    /\ mode = "harness" /\ rpc = "idle" /\ calls < MaxCalls
    /\ calls' = calls + 1
    /\ rpc' = "kbProbe"
    /\ thrown' = NoError
    /\ \E instr \in InstructionSet :
          /\ instructions' = instr
          /\ rlog' = Append(rlog, Ev("call createKnowledgeBase", 0, instr))
    /\ UNCHANGED <<unitVars, fetchVars, svcVars, scriptVars, mode, uploadDocs, cleanupResources,
                   restVariant, getResponse, messages, requests, rdocs>>

NextReg ==
    \/ CallCreateKnowledgeSource
    \/ CallCreateKnowledgeBase
    \/ KsProbe
    \/ KsCreate
    \/ KbProbe
    \/ KbPut

SpecReg == InitReg /\ [][NextReg]_vars

KsReturnedBefore ==
    \E i \in 1..Len(rlog) : rlog[i].op = "return createKnowledgeSource"

\* C3: createKnowledgeSource is idempotent. A call made after an earlier call
\* returned normally, whose existence probe the service answers (no fault, no
\* rejected fetch), returns without error after the GET alone: no creation POST
\* is issued, and the service holds exactly one knowledge source of that name,
\* the same one as before the call.
C3_SecondCallIsNoOp ==
    [][ (rpc = "ksProbe" /\ KsReturnedBefore /\ getResponse' \notin FaultStatuses \cup {0})
        => /\ rpc' = "idle"
           /\ thrown' = NoError
           /\ rlog' = rlog \o <<Ev("GET knowledgesources", 200, ""),
                                Ev("return createKnowledgeSource", 0, "")>>
           /\ ksStore' = ksStore
           /\ Cardinality(Named(ksStore', KnowledgeSourceName)) = 1 ]_vars

\* the first call created the knowledge source, the second call found it
C3_Witness ==
    /\ rlog = << Ev("call createKnowledgeSource", 0, ""),
                 Ev("GET knowledgesources", 404, ""),
                 Ev("POST knowledgesources", 201, ""),
                 Ev("return createKnowledgeSource", 0, ""),
                 Ev("call createKnowledgeSource", 0, ""),
                 Ev("GET knowledgesources", 200, ""),
                 Ev("return createKnowledgeSource", 0, "") >>
    /\ ksStore = {RestKnowledgeSource}

\* C4: createKnowledgeBase is an upsert. Whenever a call has just returned
\* normally, the service holds exactly one knowledge base of that name and it
\* carries the definition of that call; so of two successive successful calls
\* with different answerInstructions the second one's definition is in effect.
C4_UpsertTakesLatest ==
    (rlog /= <<>> /\ rlog[Len(rlog)].op = "return createKnowledgeBase")
        => Named(kbStore, KnowledgeBaseName) = {RestKnowledgeBase(instructions)}

\* two successful calls, the second with other instructions than the first
C4_Witness ==
    /\ rlog = << Ev("call createKnowledgeBase", 0, AnswerInstructions),
                 Ev("GET knowledgebases", 404, ""),
                 Ev("PUT knowledgebases", 201, ""),
                 Ev("return createKnowledgeBase", 0, ""),
                 Ev("call createKnowledgeBase", 0, "one sentence answer"),
                 Ev("GET knowledgebases", 200, ""),
                 Ev("PUT knowledgebases", 200, ""),
                 Ev("return createKnowledgeBase", 0, "") >>
    /\ kbStore = {RestKnowledgeBase("one sentence answer")}

\* C7: in createKnowledgeSource a probe answered with a non-success status
\* other than 404 is a hard error: the function throws right after it, and a
\* creation POST is issued only right after a probe answered 404.
C7_OnlyNotFoundTriggersCreation ==
    \A i \in 1..Len(rlog) :
        /\ (rlog[i].op = "GET knowledgesources" /\ ~Ok(rlog[i].status)
            /\ rlog[i].status /= 404 /\ i < Len(rlog))
           => rlog[i + 1].op = "throw createKnowledgeSource"
        /\ rlog[i].op = "POST knowledgesources"
           => (i > 1 /\ rlog[i - 1] = Ev("GET knowledgesources", 404, ""))

\* C28: in createKnowledgeBase every answered probe, whatever its status, is
\* followed by exactly one PUT and every PUT follows a probe; the call returns
\* when the PUT's status is a success and throws otherwise, and after a return
\* the service holds the definition the call carried.
C28_ProbeNeverChangesRequests ==
    /\ \A i \in 1..Len(rlog) :
          /\ (rlog[i].op = "GET knowledgebases" /\ rlog[i].status /= 0)
             => IF i = Len(rlog) THEN rpc = "kbPut"
                ELSE /\ rlog[i + 1].op = "PUT knowledgebases"
                     /\ i + 2 <= Len(rlog)
                     /\ rlog[i + 2].op = (IF Ok(rlog[i + 1].status) THEN "return "
                                          ELSE "throw ") \o "createKnowledgeBase"
          /\ rlog[i].op = "PUT knowledgebases"
             => (i > 1 /\ rlog[i - 1].op = "GET knowledgebases")
    /\ (rlog /= <<>> /\ rlog[Len(rlog)].op = "return createKnowledgeBase")
       => Named(kbStore, KnowledgeBaseName) = {RestKnowledgeBase(instructions)}

\* a probe answered 500 was followed by the PUT, which created the knowledge
\* base, and the call returned
C28_Witness ==
    /\ Len(rlog) = 4
    /\ rlog[2] = Ev("GET knowledgebases", 500, "")
    /\ rlog[3] = Ev("PUT knowledgebases", 201, "")
    /\ rlog[4].op = "return createKnowledgeBase"
    /\ kbStore = {RestKnowledgeBase(instructions)}

----------------------------------------------------------------------------
(* Claims about the retrieval session and the exit code (SpecRest) *)

\* the answers of the retrieval requests so far, in order
RetrieveEvents == SelectSeq(rlog, LAMBDA e : e.op = "POST retrieve")

\* the assistant reply that a successful retrieval response carries: its
\* `response` when that is a string, the JSON text of it when it is an array,
\* the empty string otherwise
ReplyOf(e) ==
    IF e.body = "string" THEN "answer"
    ELSE IF e.body = "array" THEN JsonStringify("answer")
    ELSE ""

FailedRetrieve(e) == e.op = "POST retrieve" /\ e.status /= 0 /\ ~Ok(e.status)

\* C5: when the second retrieval request is sent, the assistant reply
\* extracted from the first response is already the conversation's third turn,
\* and the request's messages contain, in this order, the first question, that
\* reply and the follow-up question (nothing else in the variant without chat).
C5_SecondRequestCarriesFirstTurn ==
    [][(Len(requests) = 1 /\ Len(requests') = 2)
       => LET reply == Assistant(ReplyOf(RetrieveEvents[1]))
              r == requests'[2]
          IN /\ Len(RetrieveEvents) = 1
             /\ Len(messages) >= 3
             /\ messages[3] = reply
             /\ \E i, j, k \in 1..Len(r) :
                   /\ i < j /\ j < k
                   /\ r[i] = AgentMessage(FirstQuestion)
                   /\ r[j] = AgentMessage(reply)
                   /\ r[k] = AgentMessage(FollowUpQuestion)
             /\ restVariant = "retrieval"
                => r = AgentMessages(<<FirstQuestion, reply, FollowUpQuestion>>)]_vars

\* the second request has been sent after a first response whose `response`
\* was an array
C5_Witness ==
    /\ Len(requests) = 2
    /\ RetrieveEvents[1].body = "array"
    /\ requests[2][2].content[1].text = JsonStringify("answer")

\* C8: a retrieval request answered with a non-success status makes
\* callAgenticRetrieval throw an error carrying that status and the response
\* body, appends no assistant turn, and after it no retrieval request is sent.
C8_FailedRetrievalAborts ==
    [][/\ \A i \in (Len(rlog) + 1)..Len(rlog') :
             FailedRetrieve(rlog'[i])
             => /\ thrown' = [kind |-> "Agentic retrieval failed",
                              status |-> rlog'[i].status, body |-> rlog'[i].body]
                /\ messages' = messages
                /\ rpc' = "failed"
       /\ (\E i \in 1..Len(rlog) : FailedRetrieve(rlog[i]))
          => (requests' = requests /\ messages' = messages)]_vars

\* the first query was answered 500: one request was sent, the conversation
\* holds the system turn and the question only
C8_Witness ==
    /\ Len(requests) = 1
    /\ Len(RetrieveEvents) = 1
    /\ FailedRetrieve(RetrieveEvents[1])
    /\ thrown = [kind |-> "Agentic retrieval failed", status |-> 500, body |-> "errorText-b"]
    /\ messages = <<SystemMessage, FirstQuestion>>
    /\ rpc = "failed"

\* the functions that returned so far, as log entries
ReturnEvents == SelectSeq(rlog, LAMBDA e : e.op \in { "return " \o fn : fn \in
                   {"createSearchIndex", "uploadDocuments", "createKnowledgeSource",
                    "createKnowledgeBase", "runAgenticRetrieval", "deleteKnowledgeBase",
                    "deleteKnowledgeSource", "deleteSearchIndex"} })

StageThrew == \E i \in 1..Len(rlog) : \E fn \in {"createSearchIndex", "uploadDocuments",
                  "createKnowledgeSource", "createKnowledgeBase", "runAgenticRetrieval",
                  "deleteKnowledgeBase", "deleteKnowledgeSource", "deleteSearchIndex"} :
                  rlog[i].op = "throw " \o fn

\* C9: once a stage of main has thrown the process has exited with a non-zero
\* code; the exit code is 0 only when every stage selected by the two toggles
\* has returned, in order, both retrievals answered, and nothing was thrown.
C9_ExitCodeReflectsOutcome ==
    /\ StageThrew => (exitCode /= 0 /\ exitCode /= -1 /\ rpc = "failed")
    /\ exitCode = 0
       => /\ ~StageThrew
          /\ thrown = NoError
          /\ rpc = "done"
          /\ LET st == Stages(uploadDocs, cleanupResources)
             IN ReturnEvents = [i \in 1..Len(st) |-> Ev("return " \o st[i], 0, "")]
          /\ Len(RetrieveEvents) = 2
          /\ \A i \in 1..2 : Ok(RetrieveEvents[i].status)
    /\ rpc \in {"done", "failed"} <=> exitCode /= -1

\* every stage up to the last one succeeded and the last deletion failed
C9_Witness ==
    /\ uploadDocs /\ cleanupResources
    /\ Len(ReturnEvents) = 7
    /\ rlog[Len(rlog)].op = "throw deleteSearchIndex"
    /\ exitCode = 1

\* the delete requests and the returns of the delete functions, in log order
CleanupOps ==
    <<"DELETE knowledgebases", "return deleteKnowledgeBase", "DELETE knowledgesources",
      "return deleteKnowledgeSource", "deleteIndex", "return deleteSearchIndex">>

CleanupEvents ==
    SelectSeq(rlog, LAMBDA e : \E i \in 1..Len(CleanupOps) : e.op = CleanupOps[i])

\* C14: deletions are issued in the order knowledge base, knowledge source,
\* index, each after the previous delete function returned; when a run with
\* cleanup enabled ends with exit code 0 all three were issued and neither the
\* knowledge base, nor the knowledge source, nor the index exists.
C14_CleanupInReverseOrder ==
    /\ Len(CleanupEvents) <= Len(CleanupOps)
    /\ \A i \in 1..Len(CleanupEvents) : CleanupEvents[i].op = CleanupOps[i]
    /\ (exitCode = 0 /\ cleanupResources)
       => /\ Len(CleanupEvents) = Len(CleanupOps)
          /\ Named(kbStore, KnowledgeBaseName) = {}
          /\ Named(ksStore, KnowledgeSourceName) = {}
          /\ ~searchIndex.exists

\* a run that created, used and deleted all three resources
C14_Witness ==
    /\ exitCode = 0 /\ cleanupResources /\ uploadDocs
    /\ Len(CleanupEvents) = Len(CleanupOps)
    /\ \A i \in {1, 3, 5} : CleanupEvents[i].status = 204

\* runAgenticRetrieval returns in this step
RetrievalReturns ==
    /\ Len(rlog') > Len(rlog)
    /\ rlog'[Len(rlog')].op = "return runAgenticRetrieval"

\* C18: with the cleanup toggle false no delete request is ever issued; when
\* the retrieval session has returned, main ends at once with exit code 0 and
\* the knowledge base, the knowledge source and the index stay what they were.
C18_NoCleanupLeavesResources ==
    [][ ~cleanupResources
        => /\ \A i \in 1..Len(rlog') :
                 rlog'[i].op \notin {"DELETE knowledgebases", "DELETE knowledgesources",
                                     "deleteIndex"}
           /\ RetrievalReturns
              => /\ rpc' = "done" /\ exitCode' = 0
                 /\ svcVars' = svcVars
                 /\ kbStore' = {RestKnowledgeBase(instructions)}
                 /\ ksStore' = {RestKnowledgeSource} ]_vars

\* a run without cleanup has ended; the resources are still in the service
C18_Witness ==
    /\ ~cleanupResources
    /\ rpc = "done" /\ exitCode = 0
    /\ kbStore = {RestKnowledgeBase(instructions)}
    /\ ksStore = {RestKnowledgeSource}
    /\ searchIndex.exists

UploadStageOps ==
    {"createOrUpdateIndex", "GET documents.json", "uploadDocuments",
     "return createSearchIndex", "return uploadDocuments",
     "throw createSearchIndex", "throw uploadDocuments"}

RetrievalSteps ==
    {"retrieve1", "awaitRetrieve1", "chat1", "retrieve2", "awaitRetrieve2", "chat2"}

\* C19: with the upload toggle false the run creates no index, fetches and
\* uploads no document (the index is not touched before cleanup); its first
\* request is the probe of createKnowledgeSource, createKnowledgeBase follows
\* its return, and the retrieval session runs after both have returned.
C19_NoUploadStillRegisters ==
    ~uploadDocs
    => /\ \A i \in 1..Len(rlog) : rlog[i].op \notin UploadStageOps
       /\ rdocs = <<>>
       /\ searchIndex.docs = 0
       /\ rlog /= <<>> => rlog[1].op = "GET knowledgesources"
       /\ rpc \in {"kbProbe", "kbPut"}
          => ReturnEvents = <<Ev("return createKnowledgeSource", 0, "")>>
       /\ (rpc \in RetrievalSteps \/ requests /= <<>>)
          => /\ Len(ReturnEvents) >= 2
             /\ ReturnEvents[1].op = "return createKnowledgeSource"
             /\ ReturnEvents[2].op = "return createKnowledgeBase"
       /\ Len(ReturnEvents) = 2 => (rpc \in RetrievalSteps \/ rpc = "failed")

\* both queries were sent in a run that skipped the upload, against a service
\* that holds no index
C19_Witness ==
    /\ ~uploadDocs
    /\ Len(requests) = 2
    /\ ~searchIndex.exists
    /\ Len(ReturnEvents) = 2

\* C21: a retrieval request sent in this step carries the conversation as it
\* is at the call without its system turn: the conversation's first turn is
\* the system turn and is left out, every later turn is sent, in order, as
\* { role, content: [{ type: "text", text }] }, and no sent turn is a system turn.
C21_RequestIsNonSystemTurns ==
    [][ Len(requests') > Len(requests)
        => LET r == requests'[Len(requests')]
               ms == messages'
           IN /\ Len(requests') = Len(requests) + 1
              /\ ms[1].role = "system"
              /\ Len(r) = Len(ms) - 1
              /\ \A i \in 1..Len(r) :
                    /\ r[i].role = ms[i + 1].role
                    /\ r[i].role /= "system"
                    /\ r[i].content = <<[type |-> "text", text |-> ms[i + 1].content]>> ]_vars

\* the follow-up request of the variant with chat completions: four turns sent
C21_Witness ==
    /\ restVariant = "withChat"
    /\ Len(requests) = 2
    /\ Len(requests[2]) = 4
    /\ Len(messages) = 5

IsPrefix(s, t) == Len(s) <= Len(t) /\ \A i \in 1..Len(s) : s[i] = t[i]

\* C22: the conversation is append-only: in every step the earlier
\* conversation is a prefix of the later one, and a step in which a retrieval
\* request fails leaves it as it is.
C22_ConversationAppendOnly ==
    [][ /\ IsPrefix(messages, messages')
        /\ (\E i \in (Len(rlog) + 1)..Len(rlog') :
               rlog'[i].op = "POST retrieve" /\ ~Ok(rlog'[i].status))
           => messages' = messages ]_vars

\* the follow-up request failed; the conversation still holds its four turns
C22_Witness ==
    /\ thrown.kind = "Agentic retrieval failed"
    /\ Len(requests) = 2
    /\ Len(messages) = 4
    /\ messages[4] = FollowUpQuestion

PreCleanupStages ==
    {"createSearchIndex", "uploadDocuments", "createKnowledgeSource", "createKnowledgeBase",
     "runAgenticRetrieval"}

PreCleanupThrew ==
    \E i \in 1..Len(rlog) : \E fn \in PreCleanupStages : rlog[i].op = "throw " \o fn

DeleteRequests ==
    SelectSeq(rlog, LAMBDA e : e.op \in {"DELETE knowledgebases", "DELETE knowledgesources",
                                         "deleteIndex"})

Returned(fn) == \E i \in 1..Len(rlog) : rlog[i].op = "return " \o fn

\* C24: a delete request is issued only after runAgenticRetrieval, and with it
\* every earlier stage, has returned; once a stage before cleanup has thrown
\* the process has ended, no delete request was issued, and the index, the
\* knowledge source and the knowledge base whose creating stage returned exist.
C24_CleanupOnlyAfterFullSuccess ==
    /\ DeleteRequests /= <<>>
       => /\ ~PreCleanupThrew
          /\ \A fn \in PreCleanupStages :
                (\E j \in 1..Len(Stages(uploadDocs, cleanupResources)) :
                    Stages(uploadDocs, cleanupResources)[j] = fn) => Returned(fn)
    /\ PreCleanupThrew
       => /\ rpc = "failed" /\ exitCode = ExitCodeOnError
          /\ DeleteRequests = <<>>
          /\ Returned("createSearchIndex") => searchIndex.exists
          /\ Returned("createKnowledgeSource") => ksStore = {RestKnowledgeSource}
          /\ Returned("createKnowledgeBase") => kbStore = {RestKnowledgeBase(instructions)}

\* the follow-up retrieval failed in a run with cleanup enabled; everything
\* the run created is still in the service
C24_Witness ==
    /\ cleanupResources /\ uploadDocs
    /\ rpc = "failed"
    /\ rlog[Len(rlog)].op = "throw runAgenticRetrieval"
    /\ Len(requests) = 2
    /\ searchIndex.exists
    /\ ksStore = {RestKnowledgeSource}
    /\ kbStore = {RestKnowledgeBase(instructions)}

\* the statements of the convergence loop, the delay before it included
ConvergenceLoop == {"delay", "getDocumentsCount", "loopDelay"}

\* the sender is disposed after a batch failed and the index holds fewer
\* documents than documents.length; no getDocumentsCount call has rejected
FailedBatchShortfall ==
    /\ variant = "polling"
    /\ disposeCalls > 0
    /\ batchFailedEvents > 0
    /\ searchIndex.docs < documentsLength
    /\ failure /= "getDocumentsCount"

AssistantTurns == SelectSeq(messages, LAMBDA m : m.role = "assistant")

\* C29: the messages of every retrieval request sent alternate user,
\* assistant, user, ..., beginning and ending with a user turn, and the
\* conversation holds one assistant turn per retrieval request answered: never
\* more assistant turns than requests sent, and as many as requests when the
\* run ends with exit code 0.
C29_RequestsAlternate ==
    /\ \A k \in 1..Len(requests) :
          /\ Len(requests[k]) % 2 = 1
          /\ \A i \in 1..Len(requests[k]) :
                requests[k][i].role = IF i % 2 = 1 THEN "user" ELSE "assistant"
    /\ Len(AssistantTurns) <= Len(requests)
    /\ exitCode = 0 => Len(AssistantTurns) = Len(requests)

----------------------------------------------------------------------------
(* printActivities and printReferences called on one response. Only the     *)
(* lines that carry a type label are kept; the JSON.stringify line printed   *)
(* after each label has no part in what follows.                             *)

\* entries of the activity and of the references list
MaxEntries == 1

\* an activity record: each label field is missing, "" or a name
ActivityRecords ==
    { [t |-> "rec", has |-> h, activityType |-> a, type |-> ty] :
        h \in SUBSET {"activityType", "type"},
        a \in {"", "searchIndex"}, ty \in {"", "modelQueryPlanning"} }

\* a reference record: each label field is missing, "" or a name
ReferenceRecords ==
    { [t |-> "rec", has |-> h, referenceType |-> r, type |-> ty] :
        h \in SUBSET {"referenceType", "type"},
        r \in {"", "searchIndex"}, ty \in {"", "web"} }

\* a field that is not in `has` carries no value
Canonical(S) == { e \in S : \A f \in {"activityType", "referenceType", "type"} :
                              (f \in DOMAIN e /\ f \notin e.has) => e[f] = "" }

\* what response.activity / response.references can hold: nothing, null, a
\* value that is not an array, or an array of records and nulls
ListShapes(records) ==
    { MissingField, [t |-> "null", items |-> <<>>], [t |-> "object", items |-> <<>>] }
    \cup { [t |-> "array", items |-> s] :
             s \in SeqsUpTo(Canonical(records) \cup {NullItem}, MaxEntries) }

\* activity.activityType || activity.type || 'UnknownActivityRecord', read
\* without the alternative field
ActivityTypeOf_NoAlternative(activity) ==
    IF Truthy(activity, "activityType") THEN activity.activityType
    ELSE "UnknownActivityRecord"

\* const activityType = activity.activityType || activity.type || 'UnknownActivityRecord'
ActivityTypeOf(activity) ==
    IF Truthy(activity, "activityType") THEN activity.activityType
    ELSE IF Truthy(activity, "type") THEN activity.type
    ELSE "UnknownActivityRecord"

\* const referenceType = reference.referenceType || reference.type || 'AzureSearchDoc'
ReferenceTypeOf(reference) ==
    IF Truthy(reference, "referenceType") THEN reference.referenceType
    ELSE IF Truthy(reference, "type") THEN reference.type
    ELSE "AzureSearchDoc"

\* list.forEach(...) for the activity list (activities = TRUE) or the
\* references list: reading a property of null throws a TypeError, the lines
\* of the entries before it are already printed
RECURSIVE ForEachPrint(_, _)
ForEachPrint(items, activities) ==
    IF items = <<>> THEN [threw |-> FALSE, lines |-> <<>>]
    ELSE IF Head(items).t = "null" THEN [threw |-> TRUE, lines |-> <<>>]
    ELSE LET line == IF activities
                     THEN "Activity Type: " \o ActivityTypeOf(Head(items))
                     ELSE "Reference Type: " \o ReferenceTypeOf(Head(items))
             rest == ForEachPrint(Tail(items), activities)
         IN [threw |-> rest.threw, lines |-> <<line>> \o rest.lines]

\* `if (list && Array.isArray(list))`: anything but an array is skipped
printActivities(resp) ==
    LET r == IF resp.activity.t = "array" THEN ForEachPrint(resp.activity.items, TRUE)
             ELSE [threw |-> FALSE, lines |-> <<>>]
    IN [threw |-> r.threw, lines |-> <<"Activities:">> \o r.lines]

printReferences(resp) ==
    LET r == IF resp.references.t = "array" THEN ForEachPrint(resp.references.items, FALSE)
             ELSE [threw |-> FALSE, lines |-> <<>>]
    IN [threw |-> r.threw, lines |-> <<"Results">> \o r.lines]

InitPrint ==
    /\ FetchUnused
    /\ ServiceEmpty
    /\ ScriptUnused
    /\ RestUnused
    /\ EnvUnset
    /\ RaceUnused
    /\ ppc = "printActivities"
    /\ response \in [activity : ListShapes(ActivityRecords),
                     references : ListShapes(ReferenceRecords)]
    /\ console = <<>>

\* printActivities(retrievalResponse)
PrintActivities ==
    /\ ppc = "printActivities"
    /\ LET r == printActivities(response)
       IN /\ console' = console \o r.lines
          /\ ppc' = IF r.threw THEN "raised" ELSE "printReferences"
    /\ UNCHANGED <<fetchVars, svcVars, scriptVars, restVars, env, raceVars, response>>

\* printReferences(retrievalResponse)
PrintReferences ==
    /\ ppc = "printReferences"
    /\ LET r == printReferences(response)
       IN /\ console' = console \o r.lines
          /\ ppc' = IF r.threw THEN "raised" ELSE "done"
    /\ UNCHANGED <<fetchVars, svcVars, scriptVars, restVars, env, raceVars, response>>

NextPrint == PrintActivities \/ PrintReferences

SpecPrint == InitPrint /\ [][NextPrint]_vars

\* the label the record's fields call for: the specific field when present and
\* non-empty, else `type` when present and non-empty, else the generic label
LabelFor(e, field, generic) ==
    IF field \in e.has /\ e[field] /= "" THEN e[field]
    ELSE IF "type" \in e.has /\ e.type /= "" THEN e.type
    ELSE generic

\* the labelled lines for a list that may be absent or not an array
LinesFor(list, prefix, field, generic) ==
    IF list.t = "array"
    THEN [i \in 1..Len(list.items) |-> prefix \o LabelFor(list.items[i], field, generic)]
    ELSE <<>>

AllRecords(list) == \A i \in 1..Len(list.items) : list.items[i].t = "rec"

ActivityLines ==
    <<"Activities:">>
    \o LinesFor(response.activity, "Activity Type: ", "activityType", "UnknownActivityRecord")

ReferenceLines ==
    <<"Results">>
    \o LinesFor(response.references, "Reference Type: ", "referenceType", "AzureSearchDoc")

\* C23: the label printed for an activity is activityType when truthy, else
\* type when truthy, else 'UnknownActivityRecord'; for a reference it is
\* referenceType, else type, else 'AzureSearchDoc'; and neither function throws
\* when the list is absent (or not an array) or a record lacks these fields.
C23_LabelsWithFallbacks ==
    /\ (ppc \in {"printReferences", "done", "raised"} /\ AllRecords(response.activity))
          => /\ IsPrefix(ActivityLines, console)
             /\ ppc = "printReferences" => console = ActivityLines
             /\ ppc = "raised" => ~AllRecords(response.references)
    /\ (ppc \in {"done", "raised"} /\ AllRecords(response.activity)
          /\ AllRecords(response.references))
          => /\ ppc = "done"
             /\ console = ActivityLines \o ReferenceLines

C23_Witness ==
    /\ ppc = "done"
    /\ response.references = MissingField
    /\ response.activity.t = "array"
    /\ Len(response.activity.items) = 1
    /\ response.activity.items[1].has = {"type"}
    /\ console = <<"Activities:", "Activity Type: modelQueryPlanning", "Results">>

----------------------------------------------------------------------------
(* Two runs of the program execute createKnowledgeSource at the same time    *)
(* against one service. Each run is suspended at its GET probe or at its     *)
(* POST; the service answers one request at a time.                          *)

Runs == {1, 2}

InitRace ==
    /\ FetchUnused
    /\ ScriptUnused
    /\ RestUnused
    /\ EnvUnset
    /\ PrintUnused
    /\ searchIndex = [exists |-> TRUE, docs |-> 0]
    /\ ksStore \in EarlierKnowledgeSources
    /\ kbStore = {}
    /\ cpc = [r \in Runs |-> "probe"]
    /\ clog = [r \in Runs |-> <<>>]

\* run r: getAccessToken, the GET probe and `if (getResponse.ok) return`
RaceProbe(r) ==
    /\ cpc[r] = "probe"
    /\ \E status \in ProbeStatuses(ksStore, KnowledgeSourceName) :
          /\ clog' = [clog EXCEPT ![r] = Append(@, status)]
          /\ cpc' = [cpc EXCEPT ![r] = IF status = 0 THEN "raised"
                                       ELSE IF Ok(status) THEN "returned"
                                       ELSE "create"]
    /\ UNCHANGED <<fetchVars, svcVars, scriptVars, restVars, env, printVars>>

\* run r: the POST of the definition and `if (!response.ok) throw`
RaceCreate(r) ==
    /\ cpc[r] = "create"
    /\ \E status \in PostStatuses(ksStore, KnowledgeSourceName) :
          /\ ksStore' = StoreAfterPost(ksStore, RestKnowledgeSource, status)
          /\ clog' = [clog EXCEPT ![r] = Append(@, status)]
          /\ cpc' = [cpc EXCEPT ![r] = IF Ok(status) THEN "returned" ELSE "raised"]
    /\ UNCHANGED <<fetchVars, searchIndex, kbStore, scriptVars, restVars, env, printVars>>

NextRace == \E r \in Runs : RaceProbe(r) \/ RaceCreate(r)

SpecRace == InitRace /\ [][NextRace]_vars

\* every request of every run was answered from the state of the service: no
\* fault status and no rejected fetch
NoFaultInRace ==
    \A r \in Runs : \A i \in 1..Len(clog[r]) : clog[r][i] \notin FaultStatuses \cup {0}

\* C26: when both concurrent runs of createKnowledgeSource have ended and the
\* service answered every request without a fault, both runs returned without
\* error and exactly one knowledge source of that name exists.
C26_ConcurrentRunsBothSucceed ==
    ((\A r \in Runs : cpc[r] \in {"returned", "raised"}) /\ NoFaultInRace)
    => /\ \A r \in Runs : cpc[r] = "returned"
       /\ Cardinality(Named(ksStore, KnowledgeSourceName)) = 1

----------------------------------------------------------------------------
(* A caller that invokes cleanupAllResources several times in a row against  *)
(* one service, which holds any subset of the three resources at the start.  *)

InitCleanup ==
    /\ UnitsUnused
    /\ FetchUnused
    /\ ScriptUnused
    /\ searchIndex \in {[exists |-> e, docs |-> 0] : e \in BOOLEAN}
    /\ ksStore \in {{}, {RestKnowledgeSource}}
    /\ kbStore \in {{}, {RestKnowledgeBase(AnswerInstructions)}}
    /\ mode = "harness"
    /\ rpc = "idle"
    /\ uploadDocs = FALSE
    /\ cleanupResources \in BOOLEAN
    /\ restVariant = "retrieval"
    /\ instructions = AnswerInstructions
    /\ getResponse = 0
    /\ messages = <<>>
    /\ requests = <<>>
    /\ rlog = <<>>
    /\ thrown = NoError
    /\ rdocs = <<>>
    /\ calls = 0

\* await cleanupAllResources(searchIndexClient, credential, cleanup):
\* `if (!cleanup) return`, else the three deletions one after the other
CallCleanupAllResources ==
    /\ mode = "harness" /\ rpc = "idle" /\ calls < MaxCalls
    /\ calls' = calls + 1
    /\ rpc' = IF cleanupResources THEN "deleteKnowledgeBase" ELSE "idle"
    /\ thrown' = NoError
    /\ rlog' = Append(rlog, Ev("call cleanupAllResources", 0, ""))
    /\ UNCHANGED <<unitVars, fetchVars, svcVars, scriptVars, mode, uploadDocs, cleanupResources,
                   restVariant, instructions, getResponse, messages, requests, rdocs>>

NextCleanup ==
    \/ CallCleanupAllResources
    \/ RDeleteKnowledgeBase
    \/ RDeleteKnowledgeSource
    \/ RDeleteSearchIndex

SpecCleanup == InitCleanup /\ [][NextCleanup]_vars

\* the delete function that issues the request `op`
DeleteFnOf(op) ==
    CASE op = "DELETE knowledgebases" -> "deleteKnowledgeBase"
      [] op = "DELETE knowledgesources" -> "deleteKnowledgeSource"
      [] op = "deleteIndex" -> "deleteSearchIndex"

\* C27: a delete answered with success or with 404 (IndexNotFound for the
\* index) makes its function return, any other status or a rejected request
\* makes it throw; so when the service answers every delete without a fault,
\* every cleanupAllResources call issues its three deletes and returns, the
\* calls after the first find nothing (404 three times), and nothing is left.
C27_DeletionToleratesAbsence ==
    /\ \A i \in 1..Len(rlog) :
          rlog[i].op \in {"DELETE knowledgebases", "DELETE knowledgesources", "deleteIndex"}
          => /\ i < Len(rlog)
             /\ rlog[i + 1].op =
                   (IF Ok(rlog[i].status) \/ rlog[i].status = 404 THEN "return " ELSE "throw ")
                      \o DeleteFnOf(rlog[i].op)
    /\ (cleanupResources /\ rpc = "idle"
          /\ \A i \in 1..Len(DeleteRequests) : DeleteRequests[i].status \in {204, 404})
       => /\ thrown = NoError
          /\ Len(DeleteRequests) = 3 * calls
          /\ \A i \in 4..Len(DeleteRequests) : DeleteRequests[i].status = 404
          /\ calls >= 1 => (kbStore = {} /\ ksStore = {} /\ ~searchIndex.exists)

\* the first call deleted all three resources, the second found none
C27_Witness ==
    /\ calls = 2 /\ rpc = "idle"
    /\ thrown = NoError
    /\ Len(DeleteRequests) = 6
    /\ \A i \in 1..3 : DeleteRequests[i].status = 204
    /\ \A i \in 4..6 : DeleteRequests[i].status = 404
    /\ rlog[Len(rlog)].op = "return deleteSearchIndex"

----------------------------------------------------------------------------
(* Reading the two toggles from the process environment, for the values an  *)
(* operator may set them to.                                                 *)

\* values of UPLOAD_DOCS / CLEANUP_RESOURCES: unset, or set to one of these strings
EnvValues ==
    {Undefined} \cup { Str(t) : t \in {"", "false", "FALSE", "False", "0", "no", "true", "1"} }

InitConfig ==
    /\ FetchUnused
    /\ ServiceEmpty
    /\ ScriptUnused
    /\ PrintUnused
    /\ RaceUnused
    /\ env \in [UPLOAD_DOCS : EnvValues, CLEANUP_RESOURCES : EnvValues]
    /\ mode = "config"
    /\ rpc = "loadConfig"
    /\ uploadDocs = FALSE
    /\ cleanupResources = FALSE
    /\ restVariant = "none"
    /\ instructions = ""
    /\ getResponse = 0
    /\ messages = <<>>
    /\ requests = <<>>
    /\ rlog = <<>>
    /\ thrown = NoError
    /\ rdocs = <<>>
    /\ calls = 0

\* uploadDocs: process.env.UPLOAD_DOCS !== 'false',
\* cleanupResources: process.env.CLEANUP_RESOURCES !== 'false'
LoadConfig ==
    /\ mode = "config" /\ rpc = "loadConfig"
    /\ uploadDocs' = Toggle(env.UPLOAD_DOCS)
    /\ cleanupResources' = Toggle(env.CLEANUP_RESOURCES)
    /\ rpc' = "loaded"
    /\ UNCHANGED <<fetchVars, svcVars, scriptVars, unitVars, mode, restVariant, instructions,
                   getResponse, messages, requests, rlog, thrown, rdocs, calls>>

NextConfig == LoadConfig

SpecConfig == InitConfig /\ [][NextConfig]_vars

\* C30: once the configuration is read, each toggle is off exactly when its
\* variable is set to the string 'false'; unset, '', 'FALSE', '0' and 'no'
\* leave it on.
C30_OnlyExactFalseDisables ==
    rpc = "loaded"
    => /\ uploadDocs <=> env.UPLOAD_DOCS /= Str("false")
       /\ cleanupResources <=> env.CLEANUP_RESOURCES /= Str("false")
       /\ env.UPLOAD_DOCS \in {Undefined, Str(""), Str("FALSE"), Str("0"), Str("no")}
          => uploadDocs
       /\ env.CLEANUP_RESOURCES \in {Undefined, Str(""), Str("FALSE"), Str("0"), Str("no")}
          => cleanupResources

\* UPLOAD_DOCS=0 leaves the upload on, CLEANUP_RESOURCES=false turns cleanup off
C30_Witness ==
    /\ rpc = "loaded"
    /\ env.UPLOAD_DOCS = Str("0") /\ uploadDocs
    /\ env.CLEANUP_RESOURCES = Str("false") /\ ~cleanupResources
====
